---------------------------- MODULE Spec2Model ----------------------------
(***************************************************************************)
(* Ledger consistency engine of the wallet service: wallet balances, the   *)
(* transaction log, TransferFunds, InitiateDeposit, the Paystack webhook   *)
(* and the idempotency middleware, over a PostgreSQL store reached through *)
(* gorm with its default isolation level (READ COMMITTED).                 *)
(*                                                                         *)
(* Every SQL statement of a handler is one step of the worker that serves  *)
(* the request.  A unit opened with DB.Transaction keeps its writes        *)
(* private until COMMIT and holds the row locks its UPDATEs took.          *)
(***************************************************************************)
EXTENDS Integers, Sequences, FiniteSets, TLC

\* ------------------------------------------------------------------ bounds
MaxAmount == 1
MaxNegAmount == 1
MaxClock == 3
FundedBalance == 2
MaxHours == 48
TickHours == 24
MaxSweeps == 1

\* --------------------------------------------------------------- constants
IdemTTLHours == 24

Procs == {"p1", "p2"}
NoProc == "none"

\* u1 and u2 were onboarded with a wallet; u3 is a user without a wallet row.
Users == {"u1", "u2", "u3"}
NoUser == "nobody"

Wallet == {[id |-> "w1", user_id |-> "u1", wallet_number |-> "n1"],
           [id |-> "w2", user_id |-> "u2", wallet_number |-> "n2"]}
WalletIds == {w.id : w \in Wallet}
NoWallet == "nowallet"
WalletNumbers == {"n1", "n2", "n9"}

TransactionTypeDeposit == "deposit"
TransactionTypeTransfer == "transfer"
TransactionTypeCredit == "credit"
TransactionStatusPending == "pending"
TransactionStatusSuccess == "success"
TransactionStatusFailed == "failed"

Tokens == {"", "k1"}
\* amounts a client may ask for, and amounts a provider notification may carry
Amounts == 1 .. MaxAmount
WebhookAmounts == {0 - a : a \in 1 .. MaxNegAmount} \cup (1 .. MaxAmount + 1)

VARIABLES
  balance,       \* wallets.balance of the committed rows
  transactions,  \* the committed rows of the transactions table
  idemKeys,      \* the committed rows of the idempotency key table
  apiKeys,       \* the rows of the api_keys table
  users,         \* the owners that have a row in the users table
  wallets,       \* the rows of the wallets table, without their balance
  cache,         \* RateLimitByAPIKey's map: per key id, count and resetTime
  admitted,      \* history: per key id, the requests the rate guard let
                 \* through since the last window was started
  lately,        \* history: per key id, the reading of the latest request let
                 \* through, how many were let through at that reading and
                 \* how many at the reading before it
  clock,         \* reading of time.Now() in nanoseconds (abstract ticks)
  hours,         \* the same clock in whole hours
  lock,          \* row locks held by open database transactions: <<row, worker>>
  router,        \* handler chain of each route
  pc,            \* the statement each worker executes next
  req,           \* the request a worker serves
  loc,           \* the handler's local variables
  wr,            \* uncommitted writes of the worker's open transaction
  resp,          \* the response last written by the worker
  sweeps,        \* clean-up goroutines started and not yet run
  okExecs        \* history: per idempotency fingerprint, the 2xx responses the
                 \* wrapped handlers produced and the hour of each

vars == <<balance, transactions, idemKeys, apiKeys, users, wallets, cache, admitted, lately,
          clock, hours, lock, router,
          pc, req, loc, wr, resp, sweeps, okExecs>>

ledger == <<balance, transactions>>

\* ----------------------------------------------------------------- helpers
NoResp == [code |-> 0, body |-> <<>>]
JSON(code, body) == [code |-> code, body |-> body]

NoRef == <<"", 0>>

\* an API key value: <<"plain", n>> as GenerateAPIKey returns it,
\* <<"sha256", n>> its digest
NoKey == <<"", 0>>

\* an expiry string: its leading characters, whether they scan as the
\* number `count`, and its last character
Expiry(digits, count, unit) == [digits |-> digits, count |-> count, unit |-> unit]
NoExpiry == Expiry(FALSE, 0, "")

\* a row of api_keys
KeyRow(id, u, k, name, perms, exp) ==
  [id |-> id, user_id |-> u, key |-> k, name |-> name, permissions |-> perms,
   expires_at |-> exp, is_active |-> TRUE]
NoRow == KeyRow(0, "nobody", NoKey, "", {}, 0)

NoReq == [path |-> "", cred |-> [type |-> "none", user_id |-> "nobody", key |-> NoKey],
          token |-> "", wallet_number |-> "", amount |-> 0, signature |-> <<>>,
          valid_json |-> TRUE, event |-> "", reference |-> NoRef,
          name |-> "", permissions |-> {}, expiry |-> NoExpiry, key_id |-> 0,
          code |-> "", debug |-> FALSE, google |-> "nobody"]

NoTx == [user_id |-> NoUser, type |-> "", amount |-> 0, status |-> "",
         reference |-> NoRef, recipient_wallet_id |-> NoWallet,
         sender_wallet_id |-> NoWallet]

NoLoc == [user_id |-> NoUser, idem |-> FALSE, sender |-> NoWallet,
          senderBal |-> 0, recipient |-> NoWallet, recipientBal |-> 0,
          reference |-> NoRef, transaction |-> NoTx, apiKey |-> NoRow,
          walletNumber |-> "", now |-> 0,
          data |-> [exists |-> FALSE, count |-> 0, resetTime |-> 0]]

NoWr == [bal |-> <<>>, ins |-> {}, upd |-> {}]

WalletByUser(u) == {w \in wallets : w.user_id = u}
WalletByNumber(n) == {w \in wallets : w.wallet_number = n}
TxByReference_AnyRecord(r) == transactions

TxByReference(r) == {t \in transactions : t.reference = r}

\* time.Now() read after the reading `clock`: the same nanosecond or a later one
ClockReadings == {t \in {clock, clock + 1} : t <= MaxClock}

\* utils.GenerateReference: "TXN_" followed by the nanosecond reading t
GenerateReference(t) == <<"TXN", t>>


\* ------------------------------------------------------------------ routes
PathTransfer == "/wallet/transfer"
PathDeposit == "/wallet/deposit"
PathWebhook == "/wallet/paystack/webhook"
PathBalance == "/wallet/balance"
PathTransactions == "/wallet/transactions"
PathStatus == "/wallet/deposit/:reference/status"
PathKeysCreate == "/keys/create"
PathKeysRollover == "/keys/rollover"
PathKeysList == "/keys/list"
PathKeysRevoke == "/keys/:id"
KeyPaths == {PathKeysCreate, PathKeysRollover, PathKeysList, PathKeysRevoke}
Paths == {PathTransfer, PathDeposit, PathWebhook, PathBalance, PathTransactions,
          PathStatus}
           \cup KeyPaths

\* the keys group of main(): AuthMiddleware, then the handler
KeyRoutes(path) ==
  CASE path = PathKeysCreate -> <<"AuthMiddleware", "CreateAPIKey">>
    [] path = PathKeysRollover -> <<"AuthMiddleware", "RolloverAPIKey">>
    [] path = PathKeysList -> <<"AuthMiddleware", "ListAPIKeys">>
    [] path = PathKeysRevoke -> <<"AuthMiddleware", "RevokeAPIKey">>

\* the read routes of the wallet group of main()
ReadRoutes(path) ==
  CASE path = PathBalance ->
         <<"AuthMiddleware", "RequirePermission", "GetWalletBalance">>
    [] path = PathTransactions ->
         <<"AuthMiddleware", "RequirePermission", "GetTransactionHistory">>

\* the permission main() gives RequirePermission on a wallet route
RoutePermission(path) ==
  CASE path = PathDeposit -> "deposit"
    [] path = PathTransfer -> "transfer"
    [] path \in {PathBalance, PathTransactions} -> "read"
    [] OTHER -> ""

\* the wallet group of main()
MainRoutes ==
  [path \in Paths |->
     CASE path = PathDeposit ->
            <<"AuthMiddleware", "RequirePermission", "InitiateDeposit">>
       [] path = PathWebhook -> <<"PaystackWebhook">>
       [] path = PathTransfer ->
            <<"AuthMiddleware", "RequirePermission", "TransferFunds">>
       [] path \in {PathBalance, PathTransactions} -> ReadRoutes(path)
       [] path = PathStatus -> <<"AuthMiddleware", "GetDepositStatus">>
       [] path \in KeyPaths -> KeyRoutes(path)]

\* the same group with IdempotencyMiddleware installed on the mutating,
\* authenticated routes
IdemRoutes ==
  [path \in Paths |->
     CASE path = PathDeposit ->
            <<"AuthMiddleware", "RequirePermission", "IdempotencyMiddleware",
              "InitiateDeposit">>
       [] path = PathWebhook -> <<"PaystackWebhook">>
       [] path = PathTransfer ->
            <<"AuthMiddleware", "RequirePermission", "IdempotencyMiddleware",
              "TransferFunds">>
       [] path \in {PathBalance, PathTransactions} -> ReadRoutes(path)
       [] path = PathStatus -> <<"AuthMiddleware", "GetDepositStatus">>
       [] path \in KeyPaths -> KeyRoutes(path)]

InChain(path, h) == \E i \in 1 .. Len(router[path]) : router[path][i] = h

\* a valid signed token of user u in the Authorization header
JwtOf(u) == [type |-> "jwt", user_id |-> u, key |-> NoKey]
Jwt == {JwtOf(u) : u \in Users}
NoCred == [type |-> "none", user_id |-> NoUser, key |-> NoKey]

\* the value k in the x-api-key header, and no Authorization header
ApiKeyOf(k) == [type |-> "api_key", user_id |-> NoUser, key |-> k]

\* utils.HashAPIKey: the hex SHA-256 digest of the value
HashAPIKey(k) == <<IF k[1] = "plain" THEN "sha256" ELSE "sha256(" \o k[1] \o ")", k[2]>>

\* models.APIKey.IsExpired: time.Now().After(a.ExpiresAt)
KeyIsExpired(k) == hours > k.expires_at

KeyLookup_AlsoInactive(k) == {row \in apiKeys : row.key = HashAPIKey(k)}

\* database.DB.Where("key = ? AND is_active = ?", hashedKey, true)
KeyLookup(k) == {row \in apiKeys : row.key = HashAPIKey(k) /\ row.is_active}

\* the api_keys row that authenticates the credential, if one does
KeyRowOf(cred) ==
  IF cred.type = "api_key"
    THEN {row \in KeyLookup(cred.key) : ~KeyIsExpired(row)}
    ELSE {}

\* AuthMiddleware: the user_id it sets, NoUser when it aborts with 401
AuthMiddleware(cred) ==
  IF cred.type = "jwt" THEN cred.user_id
  ELSE IF KeyRowOf(cred) # {} THEN (CHOOSE row \in KeyRowOf(cred) : TRUE).user_id
  ELSE NoUser

\* AuthMiddleware: the body of its 401
AuthError(cred) ==
  IF cred.type # "api_key" THEN <<"Authentication required">>
  ELSE IF KeyLookup(cred.key) = {} THEN <<"Invalid API key">>
  ELSE <<"API key has expired">>

\* the permissions AuthMiddleware sets for an API key
PermissionsOf(cred) ==
  IF KeyRowOf(cred) # {} THEN (CHOOSE row \in KeyRowOf(cred) : TRUE).permissions ELSE {}

RequirePermission_NoCheck(cred, permission) == TRUE

\* RequirePermission: a JWT caller passes whatever the permission, an API
\* key caller when the permission is in its list
RequirePermission(cred, permission) ==
  \/ cred.type = "jwt"
  \/ cred.type = "api_key" /\ permission \in PermissionsOf(cred)

KeyHash_NoPath(user_id, path, token) == user_id \o token

\* sha256 over user_id, path and key written one after the other
KeyHash(user_id, path, token) == user_id \o path \o token

Fingerprints == {KeyHash(u, path, t) : u \in Users, path \in {PathTransfer, PathDeposit},
                                       t \in Tokens \ {""}}

PaystackSecretKey == "sk_paystack"
Hmac(key, body) == <<"hmac-sha512", key, body>>
WebhookBody(r) == <<r.valid_json, r.event, r.reference, r.amount>>

verifyPaystackSignature_AnyTag(body, signature) == TRUE

\* verifyPaystackSignature
verifyPaystackSignature(body, signature) == signature = Hmac(PaystackSecretKey, body)


\* ------------------------------------------------------------------- state
Is2xx(code) == code >= 200 /\ code < 300

NoLocks == [wallets |-> {}, transactions |-> {}]

\* the row locks of worker p are released
Unlock(p) == [wallets |-> {l \in lock.wallets : l[2] # p},
              transactions |-> {l \in lock.transactions : l[2] # p}]

\* the hour at which the keys present at start expire
SeededExpiry == 1

\* permissions of an API key, apikeys.go validPermissions
ValidPermissions == {"deposit", "transfer", "read"}

\* the api_keys rows in the database when the service starts: keys of u1
\* and u2 whose key column holds the digest AuthMiddleware looks up, valid
\* until SeededExpiry
SeededKeys ==
  {KeyRow(1, "u1", <<"sha256", 1>>, "reader", {"read"}, SeededExpiry),
   KeyRow(2, "u1", <<"sha256", 2>>, "teller", {"deposit", "transfer"}, SeededExpiry),
   KeyRow(3, "u2", <<"sha256", 3>>, "idle", {}, SeededExpiry)}

\* the same table when u1 holds MaxActiveKeys - 1 active keys
LimitKeys ==
  SeededKeys \cup
    {KeyRow(n, "u1", <<"sha256", n>>, "spare", {"read"}, SeededExpiry) : n \in 4 .. 5}

\* the key ids whose requests pass through the rate guard
RatedKeys == {1}

\* no entry of the rate guard's map
NoData == [exists |-> FALSE, count |-> 0, resetTime |-> 0]

\* the state after start-up with the given tables
InitTables(routes, balances, rows, keys, owners, walletRows) ==
  /\ balance = balances
  /\ transactions = rows
  /\ idemKeys = {}
  /\ apiKeys = keys
  /\ users = owners
  /\ wallets = walletRows
  /\ cache = [k \in RatedKeys |-> NoData]
  /\ admitted = [k \in RatedKeys |-> 0]
  /\ lately = [k \in RatedKeys |-> [at |-> 0, n |-> 0, before |-> 0]]
  /\ clock = 0
  /\ hours = 0
  /\ lock = NoLocks
  /\ router = routes
  /\ pc = [p \in Procs |-> "idle"]
  /\ req = [p \in Procs |-> NoReq]
  /\ loc = [p \in Procs |-> NoLoc]
  /\ wr = [p \in Procs |-> NoWr]
  /\ resp = [p \in Procs |-> NoResp]
  /\ sweeps = 0
  /\ okExecs = [f \in Fingerprints |-> <<>>]

InitWithKeys(routes, balances, rows, keys) ==
  InitTables(routes, balances, rows, keys, Users, Wallet)

InitWith(routes, balances, rows) == InitWithKeys(routes, balances, rows, SeededKeys)

\* the tables after the onboarding of u1 and u2
Init == InitWith(MainRoutes, [w \in WalletIds |-> 0], {})

\* a deposit of user u, initiated at the earlier clock reading t
EarlierDeposit(u, t, amount, status) ==
  [NoTx EXCEPT !.user_id = u, !.type = TransactionTypeDeposit, !.amount = amount,
               !.status = status, !.reference = GenerateReference(t)]

\* the tables after u1 and u2 have each initiated a deposit
PendingTables == [balance |-> [w \in WalletIds |-> 0],
                  transactions |-> {EarlierDeposit("u1", -1, 1, TransactionStatusPending),
                                    EarlierDeposit("u2", -2, 1, TransactionStatusPending)}]

\* the tables after a deposit of u1 was confirmed with FundedBalance
FundedTables ==
  [balance |-> [w \in WalletIds |-> IF w = "w1" THEN FundedBalance ELSE 0],
   transactions |-> {EarlierDeposit("u1", -1, FundedBalance, TransactionStatusSuccess)}]

InitPending == InitWith(MainRoutes, PendingTables.balance, PendingTables.transactions)

InitFunded == InitWith(MainRoutes, FundedTables.balance, FundedTables.transactions)

InitIdem == InitWith(IdemRoutes, FundedTables.balance, FundedTables.transactions)

\* the empty database of a new deployment
InitEmpty == InitTables(MainRoutes, [w \in WalletIds |-> 0], {}, {}, {}, {})

InitLimit ==
  InitWithKeys(MainRoutes, FundedTables.balance, FundedTables.transactions, LimitKeys)

\* ------------------------------------------------- responses and the ORM unit
\* the handler has written its response: the worker returns to the
\* idempotency middleware when that wraps the handler, else it is done
Reply(p, response) ==
  /\ resp' = [resp EXCEPT ![p] = response]
  /\ pc' = [pc EXCEPT ![p] = IF loc[p].idem THEN "id_store" ELSE "done"]
  /\ okExecs' = IF loc[p].idem /\ Is2xx(response.code)
                  THEN [okExecs EXCEPT
                          ![KeyHash(loc[p].user_id, req[p].path, req[p].token)] =
                             Append(@, [resp |-> response, at |-> hours])]
                  ELSE okExecs

Rollback_KeepsWrites(p) ==
  /\ balance' = [w \in WalletIds |->
                   IF w \in DOMAIN wr[p].bal THEN wr[p].bal[w] ELSE balance[w]]
  /\ transactions' =
       {t \in transactions : \A u \in wr[p].upd : u.reference # t.reference}
         \cup wr[p].upd \cup wr[p].ins
  /\ wr' = [wr EXCEPT ![p] = NoWr]
  /\ lock' = Unlock(p)

\* ROLLBACK: the writes of the unit are dropped and its row locks released
Rollback(p) ==
  /\ wr' = [wr EXCEPT ![p] = NoWr]
  /\ lock' = Unlock(p)
  /\ UNCHANGED ledger

\* COMMIT: the writes of the unit become the committed rows
Commit(p) ==
  /\ balance' = [w \in WalletIds |->
                   IF w \in DOMAIN wr[p].bal THEN wr[p].bal[w] ELSE balance[w]]
  /\ transactions' =
       {t \in transactions : \A u \in wr[p].upd : u.reference # t.reference}
         \cup wr[p].upd \cup wr[p].ins
  /\ wr' = [wr EXCEPT ![p] = NoWr]
  /\ lock' = Unlock(p)

\* a row lock is free for p
CanLock(p, table, row) == \A l \in lock[table] : l[1] = row => l[2] = p

\* a reference another open unit has inserted and not yet committed: the
\* unique index makes a second insert of it wait
InsertWaits(p, ref) ==
  \E q \in Procs \ {p} : \E t \in wr[q].ins : t.reference = ref

UniqueViolation_None(p, ref) == FALSE

\* the unique index on transactions.reference rejects the insert
UniqueViolation(p, ref) ==
  \/ TxByReference(ref) # {}
  \/ \E t \in wr[p].ins : t.reference = ref


\* ------------------------------------------------------------ TransferFunds
\* c.ShouldBindJSON(&req) of TransferRequest: wallet_number required, amount gt=0
BindTransfer(r) == r.valid_json /\ r.wallet_number # "" /\ r.amount > 0

\* c.ShouldBindJSON(&req) of DepositRequest: amount gt=0
BindDeposit(r) == r.valid_json /\ r.amount > 0

\* c.ShouldBindJSON(&req) of CreateAPIKeyRequest: name, permissions and
\* expiry required
BindCreate(r) == r.valid_json /\ r.name # "" /\ r.expiry # NoExpiry

\* c.ShouldBindJSON(&req) of RolloverAPIKeyRequest: expired_key_id and expiry
\* required
BindRollover(r) == r.valid_json /\ r.key_id # 0 /\ r.expiry # NoExpiry

\* the handler of a route starts: binding, then its first statement
EnterHandler(r) ==
  CASE r.path = PathTransfer ->
         IF BindTransfer(r)
           THEN [pc |-> "tf_sender", resp |-> NoResp]
           ELSE [pc |-> "bad", resp |-> JSON(400, <<"Invalid request">>)]
    [] r.path = PathDeposit ->
         IF BindDeposit(r)
           THEN [pc |-> "dp_wallet", resp |-> NoResp]
           ELSE [pc |-> "bad",
                 resp |-> JSON(400, <<"Amount is required and must be greater than 0">>)]
    [] r.path = PathBalance -> [pc |-> "rd_balance", resp |-> NoResp]
    [] r.path = PathTransactions -> [pc |-> "rd_history", resp |-> NoResp]
    [] r.path = PathStatus -> [pc |-> "gd_find", resp |-> NoResp]
    [] r.path = PathKeysCreate ->
         IF ~BindCreate(r)
           THEN [pc |-> "bad", resp |-> JSON(400, <<"binding">>)]
         ELSE IF ~(r.permissions \subseteq ValidPermissions)
           THEN [pc |-> "bad", resp |-> JSON(400, <<"Invalid permission">>)]
         ELSE [pc |-> "ck_count", resp |-> NoResp]
    [] r.path = PathKeysRollover ->
         IF BindRollover(r)
           THEN [pc |-> "ro_find", resp |-> NoResp]
           ELSE [pc |-> "bad", resp |-> JSON(400, <<"binding">>)]
    [] r.path = PathKeysList -> [pc |-> "ls_keys", resp |-> NoResp]
    [] r.path = PathKeysRevoke -> [pc |-> "rv_update", resp |-> NoResp]

NoIdempotencyKey_Never(token) == FALSE

\* idempotencyKey == "": the middleware calls c.Next() and returns
NoIdempotencyKey(token) == token = ""

\* the chain of an authenticated wallet route up to the first statement that
\* reaches the database
Dispatch(r, permission) ==
  LET u == AuthMiddleware(r.cred) IN
  IF InChain(r.path, "AuthMiddleware") /\ u = NoUser
    THEN [pc |-> "done", resp |-> JSON(401, AuthError(r.cred)), idem |-> FALSE]
  ELSE IF InChain(r.path, "RequirePermission") /\ ~RequirePermission(r.cred, permission)
    THEN [pc |-> "done", resp |-> JSON(403, <<"Insufficient permissions">>), idem |-> FALSE]
  ELSE IF InChain(r.path, "IdempotencyMiddleware") /\ ~NoIdempotencyKey(r.token)
    THEN [pc |-> "id_lookup", resp |-> NoResp, idem |-> TRUE]
  ELSE LET e == EnterHandler(r) IN
       [pc |-> IF e.pc = "bad" THEN "done" ELSE e.pc, resp |-> e.resp, idem |-> FALSE]

Receive(p, r, permission) ==
  LET d == Dispatch(r, permission) IN
  /\ pc[p] = "idle"
  /\ req' = [req EXCEPT ![p] = r]
  /\ pc' = [pc EXCEPT ![p] = d.pc]
  /\ resp' = [resp EXCEPT ![p] = d.resp]
  /\ loc' = [loc EXCEPT ![p] = [NoLoc EXCEPT !.user_id = AuthMiddleware(r.cred),
                                             !.idem = d.idem]]
  /\ UNCHANGED <<balance, transactions, idemKeys, clock, hours, lock, router, cache, admitted, lately, users, wallets, apiKeys, wr, sweeps, okExecs>>

\* POST /wallet/transfer arrives at an idle worker
TransferRequest(cred, token, n, a) ==
  [NoReq EXCEPT !.path = PathTransfer, !.cred = cred, !.token = token,
                !.wallet_number = n, !.amount = a]

TransferRequests ==
  {TransferRequest(c, t, n, a) :
     c \in Jwt, t \in Tokens, n \in WalletNumbers, a \in Amounts}
    \cup {TransferRequest(JwtOf("u1"), t, "n2", 0) : t \in Tokens}
    \cup {TransferRequest(NoCred, "", "n2", 1)}

ReceiveTransfer(p) == \E r \in TransferRequests : Receive(p, r, "transfer")

InsufficientBalance_NoCheck(bal, amount) == FALSE

\* senderWallet.Balance < req.Amount
InsufficientBalance(bal, amount) == bal < amount

SelfTransfer_NoCheck(senderWalletID, recipientWalletID) == FALSE

\* senderWallet.ID == recipientWallet.ID
SelfTransfer(senderWalletID, recipientWalletID) == senderWalletID = recipientWalletID

Debit_Forgotten(bal, amount) == bal

\* senderWallet.Balance -= req.Amount
Debit(bal, amount) == bal - amount

Credit_Ignored(bal, amount) == bal

\* recipientWallet.Balance += req.Amount, wallet.Balance += amount
Credit(bal, amount) == bal + amount

\* SELECT the sender's wallet, then the balance check
TfSender(p) ==
  /\ pc[p] = "tf_sender"
  /\ LET ws == WalletByUser(loc[p].user_id) IN
     IF ws = {}
       THEN /\ Reply(p, JSON(500, <<"Transfer failed">>))
            /\ UNCHANGED loc
       ELSE LET w == CHOOSE x \in ws : TRUE IN
            IF InsufficientBalance(balance[w.id], req[p].amount)
              THEN /\ Reply(p, JSON(400, <<"Insufficient balance">>))
                   /\ UNCHANGED loc
              ELSE /\ loc' = [loc EXCEPT ![p].sender = w.id,
                                         ![p].senderBal = balance[w.id]]
                   /\ pc' = [pc EXCEPT ![p] = "tf_recipient"]
                   /\ UNCHANGED <<resp, okExecs>>
  /\ UNCHANGED <<balance, transactions, idemKeys, clock, hours, lock, router, cache, admitted, lately, users, wallets, apiKeys, req, wr, sweeps>>

\* SELECT the recipient's wallet by number, then the self-transfer check
TfRecipient(p) ==
  /\ pc[p] = "tf_recipient"
  /\ LET ws == WalletByNumber(req[p].wallet_number) IN
     IF ws = {}
       THEN /\ Reply(p, JSON(404, <<"Recipient wallet not found">>))
            /\ UNCHANGED loc
       ELSE LET w == CHOOSE x \in ws : TRUE IN
            IF SelfTransfer(loc[p].sender, w.id)
              THEN /\ Reply(p, JSON(400, <<"Cannot transfer to your own wallet">>))
                   /\ UNCHANGED loc
              ELSE /\ loc' = [loc EXCEPT ![p].recipient = w.id,
                                         ![p].recipientBal = balance[w.id]]
                   /\ pc' = [pc EXCEPT ![p] = "tf_saveSender"]
                   /\ UNCHANGED <<resp, okExecs>>
  /\ UNCHANGED <<balance, transactions, idemKeys, clock, hours, lock, router, cache, admitted, lately, users, wallets, apiKeys, req, wr, sweeps>>

\* senderWallet.Balance -= req.Amount; tx.Save(&senderWallet)
TfSaveSender(p) ==
  /\ pc[p] = "tf_saveSender"
  /\ CanLock(p, "wallets", loc[p].sender)
  /\ lock' = [lock EXCEPT !.wallets = @ \cup {<<loc[p].sender, p>>}]
  /\ wr' = [wr EXCEPT ![p].bal =
              (loc[p].sender :> Debit(loc[p].senderBal, req[p].amount)) @@ @]
  /\ pc' = [pc EXCEPT ![p] = "tf_saveRecipient"]
  /\ UNCHANGED <<balance, transactions, idemKeys, clock, hours, router, cache, admitted, lately, users, wallets, apiKeys, req, loc,
                 resp, sweeps, okExecs>>

\* recipientWallet.Balance += req.Amount; tx.Save(&recipientWallet); then
\* the reference of the sender's record is generated
TfSaveRecipient(p) ==
  /\ pc[p] = "tf_saveRecipient"
  /\ CanLock(p, "wallets", loc[p].recipient)
  /\ lock' = [lock EXCEPT !.wallets = @ \cup {<<loc[p].recipient, p>>}]
  /\ wr' = [wr EXCEPT ![p].bal =
              (loc[p].recipient :> Credit(loc[p].recipientBal, req[p].amount)) @@ @]
  /\ \E t \in ClockReadings :
       /\ clock' = t
       /\ loc' = [loc EXCEPT ![p].reference = GenerateReference(t)]
  /\ pc' = [pc EXCEPT ![p] = "tf_senderTx"]
  /\ UNCHANGED <<balance, transactions, idemKeys, hours, router, cache, admitted, lately, users, wallets, apiKeys, req,
                 resp, sweeps, okExecs>>

senderTx(p) ==
  [user_id |-> loc[p].user_id, type |-> TransactionTypeTransfer,
   amount |-> req[p].amount, status |-> TransactionStatusSuccess,
   reference |-> loc[p].reference, recipient_wallet_id |-> loc[p].recipient,
   sender_wallet_id |-> NoWallet]

recipientTx(p) ==
  [user_id |-> (CHOOSE w \in Wallet : w.id = loc[p].recipient).user_id,
   type |-> TransactionTypeCredit,
   amount |-> req[p].amount, status |-> TransactionStatusSuccess,
   reference |-> loc[p].reference, recipient_wallet_id |-> NoWallet,
   sender_wallet_id |-> loc[p].sender]

\* tx.Create(&senderTx); then the reference of the recipient's record is
\* generated
TfSenderTx(p) ==
  /\ pc[p] = "tf_senderTx"
  /\ ~InsertWaits(p, loc[p].reference)
  /\ IF UniqueViolation(p, loc[p].reference)
       THEN /\ Rollback(p)
            /\ Reply(p, JSON(500, <<"Transfer failed">>))
            /\ UNCHANGED <<loc, clock>>
       ELSE /\ wr' = [wr EXCEPT ![p].ins = @ \cup {senderTx(p)}]
            /\ \E t \in ClockReadings :
                 /\ clock' = t
                 /\ loc' = [loc EXCEPT ![p].reference = GenerateReference(t)]
            /\ pc' = [pc EXCEPT ![p] = "tf_recipientTx"]
            /\ UNCHANGED <<ledger, lock, resp, okExecs>>
  /\ UNCHANGED <<idemKeys, hours, router, cache, admitted, lately, users, wallets, apiKeys, req, sweeps>>

\* tx.Create(&recipientTx)
TfRecipientTx(p) ==
  /\ pc[p] = "tf_recipientTx"
  /\ ~InsertWaits(p, loc[p].reference)
  /\ IF UniqueViolation(p, loc[p].reference)
       THEN /\ Rollback(p)
            /\ Reply(p, JSON(500, <<"Transfer failed">>))
       ELSE /\ wr' = [wr EXCEPT ![p].ins = @ \cup {recipientTx(p)}]
            /\ pc' = [pc EXCEPT ![p] = "tf_commit"]
            /\ UNCHANGED <<ledger, lock, resp, okExecs>>
  /\ UNCHANGED <<idemKeys, clock, hours, router, cache, admitted, lately, users, wallets, apiKeys, req, loc, sweeps>>

\* the unit returns nil: COMMIT, then the 200 response
TfCommit(p) ==
  /\ pc[p] = "tf_commit"
  /\ Commit(p)
  /\ Reply(p, JSON(200, <<"success", "Transfer completed">>))
  /\ UNCHANGED <<idemKeys, clock, hours, router, cache, admitted, lately, users, wallets, apiKeys, req, loc, sweeps>>

\* a statement of the open unit fails in the database: the unit returns the
\* error and is rolled back
TfDbError(p) ==
  /\ pc[p] \in {"tf_saveSender", "tf_saveRecipient", "tf_senderTx",
                "tf_recipientTx", "tf_commit"}
  /\ Rollback(p)
  /\ Reply(p, JSON(500, <<"Transfer failed">>))
  /\ UNCHANGED <<idemKeys, clock, hours, router, cache, admitted, lately, users, wallets, apiKeys, req, loc, sweeps>>

\* the response has been sent: the worker is free again
Return(p) ==
  /\ pc[p] = "done"
  /\ pc' = [pc EXCEPT ![p] = "idle"]
  /\ req' = [req EXCEPT ![p] = NoReq]
  /\ loc' = [loc EXCEPT ![p] = NoLoc]
  /\ resp' = [resp EXCEPT ![p] = NoResp]
  /\ UNCHANGED <<balance, transactions, idemKeys, clock, hours, lock, router, cache, admitted, lately, users, wallets, apiKeys, wr, sweeps, okExecs>>


\* ---------------------------------------------------------- InitiateDeposit
\* POST /wallet/deposit arrives at an idle worker
DepositRequest(cred, token, a) ==
  [NoReq EXCEPT !.path = PathDeposit, !.cred = cred, !.token = token, !.amount = a]

DepositRequests ==
  {DepositRequest(c, t, a) : c \in Jwt, t \in Tokens, a \in Amounts}
    \cup {DepositRequest(JwtOf("u1"), t, 0) : t \in Tokens}
    \cup {DepositRequest(NoCred, "", 1)}

ReceiveDeposit(p) == \E r \in DepositRequests : Receive(p, r, "deposit")

\* SELECT the caller's wallet; then the reference is generated
DpWallet(p) ==
  /\ pc[p] = "dp_wallet"
  /\ IF WalletByUser(loc[p].user_id) = {}
       THEN /\ Reply(p, JSON(404, <<"Wallet not found">>))
            /\ UNCHANGED <<loc, clock>>
       ELSE /\ \E t \in ClockReadings :
                 /\ clock' = t
                 /\ loc' = [loc EXCEPT ![p].reference = GenerateReference(t)]
            /\ pc' = [pc EXCEPT ![p] = "dp_create"]
            /\ UNCHANGED <<resp, okExecs>>
  /\ UNCHANGED <<balance, transactions, idemKeys, hours, lock, router, cache, admitted, lately, users, wallets, apiKeys, req, wr, sweeps>>

depositTx(p) ==
  [user_id |-> loc[p].user_id, type |-> TransactionTypeDeposit,
   amount |-> req[p].amount, status |-> TransactionStatusPending,
   reference |-> loc[p].reference, recipient_wallet_id |-> NoWallet,
   sender_wallet_id |-> NoWallet]

\* database.DB.Create(&transaction), committed on its own
DpCreate(p) ==
  /\ pc[p] = "dp_create"
  /\ ~InsertWaits(p, loc[p].reference)
  /\ IF UniqueViolation(p, loc[p].reference)
       THEN /\ Reply(p, JSON(500, <<"Failed to create transaction">>))
            /\ UNCHANGED transactions
       ELSE /\ transactions' = transactions \cup {depositTx(p)}
            /\ pc' = [pc EXCEPT ![p] = "dp_paystack"]
            /\ UNCHANGED <<resp, okExecs>>
  /\ UNCHANGED <<balance, idemKeys, clock, hours, lock, router, cache, admitted, lately, users, wallets, apiKeys, req, loc, wr, sweeps>>

\* email.(string) panics when AuthMiddleware set no email, which is the case
\* of an API key caller: gin's Recovery answers 500 and the chain is left;
\* else paystackService.InitializeTransaction answers or fails
DpPaystack(p) ==
  /\ pc[p] = "dp_paystack"
  /\ IF req[p].cred.type = "api_key"
       THEN /\ resp' = [resp EXCEPT ![p] = JSON(500, <<>>)]
            /\ pc' = [pc EXCEPT ![p] = "done"]
            /\ UNCHANGED okExecs
       ELSE \E ok \in BOOLEAN :
              Reply(p, IF ok THEN JSON(200, <<loc[p].reference, "authorization_url">>)
                             ELSE JSON(500, <<"Failed to initialize payment">>))
  /\ UNCHANGED <<balance, transactions, idemKeys, clock, hours, lock, router, cache, admitted, lately, users, wallets, apiKeys, req, loc,
                 wr, sweeps>>

\* ------------------------------------ GetWalletBalance, GetTransactionHistory
\* the credentials a caller may present: a token, the value of a key of the
\* table, the digest of one, a value of no key, nothing
Callers ==
  Jwt \cup {ApiKeyOf(<<"plain", n>>) : n \in 1 .. 4}
      \cup {ApiKeyOf(<<"sha256", 1>>), NoCred}

ReadRequests ==
  {[NoReq EXCEPT !.path = path, !.cred = c] :
     path \in {PathBalance, PathTransactions}, c \in Callers}

ReceiveRead(p) == \E r \in ReadRequests : Receive(p, r, RoutePermission(r.path))

\* requests to the permission-guarded routes by every kind of caller
GuardedRequests ==
  ReadRequests
    \cup {TransferRequest(c, "", "n2", 1) : c \in Callers}
    \cup {DepositRequest(c, "", 1) : c \in Callers}

ReceiveGuarded(p) ==
  \E r \in GuardedRequests : Receive(p, r, RoutePermission(r.path))

\* GetWalletBalance: SELECT the caller's wallet, answer its balance
RdBalance(p) ==
  /\ pc[p] = "rd_balance"
  /\ IF WalletByUser(loc[p].user_id) = {}
       THEN Reply(p, JSON(404, <<"Wallet not found">>))
       ELSE LET w == CHOOSE w \in WalletByUser(loc[p].user_id) : TRUE IN
            Reply(p, JSON(200, <<"balance", balance[w.id]>>))
  /\ UNCHANGED <<balance, transactions, idemKeys, apiKeys, clock, hours, lock, router, cache, admitted, lately, users, wallets,
                 req, loc, wr, sweeps>>

\* GetTransactionHistory: SELECT the caller's records, answer type, amount
\* and status of each
RdHistory(p) ==
  /\ pc[p] = "rd_history"
  /\ Reply(p, JSON(200, <<"transactions",
                          {[type |-> t.type, amount |-> t.amount, status |-> t.status] :
                             t \in {x \in transactions : x.user_id = loc[p].user_id}},
                          "">>))
  /\ UNCHANGED <<balance, transactions, idemKeys, apiKeys, clock, hours, lock, router, cache, admitted, lately, users, wallets,
                 req, loc, wr, sweeps>>

\* GET /wallet/deposit/:reference/status arrives at an idle worker, for a
\* reference of the table or another one
StatusRequests(refs) ==
  {[NoReq EXCEPT !.path = PathStatus, !.cred = c, !.reference = ref] :
     c \in Callers, ref \in refs}

ReceiveStatus(p) ==
  \E r \in StatusRequests({t.reference : t \in transactions} \cup {NoRef}) :
    Receive(p, r, RoutePermission(r.path))

\* GetDepositStatus: SELECT the record by reference, answer its reference,
\* status and amount
GdStatus(p) ==
  /\ pc[p] = "gd_find"
  /\ IF TxByReference(req[p].reference) = {}
       THEN Reply(p, JSON(404, <<"Transaction not found">>))
       ELSE LET transaction == CHOOSE t \in TxByReference(req[p].reference) : TRUE IN
            Reply(p, JSON(200, <<"reference", transaction.reference,
                                 transaction.status, transaction.amount>>))
  /\ UNCHANGED <<balance, transactions, idemKeys, apiKeys, clock, hours, lock, router, cache, admitted, lately, users, wallets,
                 req, loc, wr, sweeps>>

\* ------------------------------------------------------------------ API keys
\* the active key limit of CreateAPIKey and RolloverAPIKey
MaxActiveKeys == 5

\* rows the handlers may add to the rows present at start
MaxNewKeys == 1

\* utils.ParseExpiry: now plus count units of H, D, M or Y; an error for
\* any other unit and for a count that does not scan
ParseExpiry(e, now) ==
  LET duration == CASE e.unit = "H" -> 1
                    [] e.unit = "D" -> 24
                    [] e.unit = "M" -> 30 * 24
                    [] e.unit = "Y" -> 365 * 24
                    [] OTHER -> 0
  IN IF e.unit \notin {"H", "D", "M", "Y"} THEN [ok |-> FALSE, at |-> 0]
     ELSE IF ~e.digits THEN [ok |-> FALSE, at |-> 0]
     ELSE [ok |-> TRUE, at |-> now + e.count * duration]

\* SELECT count(*) WHERE user_id = ? AND is_active = true AND expires_at > NOW()
ActiveCount(u) ==
  Cardinality({row \in apiKeys : row.user_id = u /\ row.is_active
                                   /\ row.expires_at > hours})

Expiries ==
  {Expiry(TRUE, 1, "H"), Expiry(TRUE, 1, "D"), Expiry(TRUE, 1, "W"),
   Expiry(FALSE, 0, "D")}

CreateRequests ==
  {[NoReq EXCEPT !.path = PathKeysCreate, !.cred = c, !.name = "mine",
                 !.permissions = perms, !.expiry = e] :
     c \in Callers,
     perms \in {{"read"}, {"deposit", "transfer", "read"}, {"admin"}},
     e \in Expiries}
    \cup {[NoReq EXCEPT !.path = PathKeysCreate, !.cred = JwtOf("u1")]}

RolloverRequests ==
  {[NoReq EXCEPT !.path = PathKeysRollover, !.cred = c, !.key_id = id, !.expiry = e] :
     c \in Callers, id \in 1 .. 4,
     e \in {Expiry(TRUE, 1, "D"), Expiry(TRUE, 1, "W")}}
    \cup {[NoReq EXCEPT !.path = PathKeysRollover, !.cred = JwtOf("u1")]}

ListRequests == {[NoReq EXCEPT !.path = PathKeysList, !.cred = c] : c \in Callers}

RevokeRequests ==
  {[NoReq EXCEPT !.path = PathKeysRevoke, !.cred = c, !.key_id = id] :
     c \in Callers, id \in 1 .. 4}

\* the rows CreateAPIKey and RolloverAPIKey have inserted
Issued == {row \in apiKeys : row.key[1] = "plain"}

ReceiveCreate(p) ==
  /\ Cardinality(Issued) < MaxNewKeys
  /\ \E r \in CreateRequests : Receive(p, r, "")

ReceiveRollover(p) ==
  /\ Cardinality(Issued) < MaxNewKeys
  /\ \E r \in RolloverRequests : Receive(p, r, "")

ReceiveList(p) == \E r \in ListRequests : Receive(p, r, "")

\* the calls of one owner, u1, with a token: create and rollover with a
\* well-formed expiry, revoke
OwnerCreateRequests ==
  {r \in CreateRequests \cup RolloverRequests :
     /\ r.cred = JwtOf("u1") /\ r.expiry = Expiry(TRUE, 1, "D")
     /\ r.permissions \subseteq {"read"} /\ r.key_id \in {0, 1}}

ReceiveOwnerCreate(p) ==
  /\ Cardinality(Issued) < MaxNewKeys
  /\ \E r \in OwnerCreateRequests : Receive(p, r, "")

ReceiveOwnerRevoke(p) ==
  \E r \in {x \in RevokeRequests : x.cred = JwtOf("u1") /\ x.key_id \in {1, 3}} :
    Receive(p, r, "")

ReceiveRevoke(p) == \E r \in RevokeRequests : Receive(p, r, "")

\* RolloverAPIKey: SELECT the key by id and owner; it must have expired
RoFind(p) ==
  LET found == {row \in apiKeys : row.id = req[p].key_id
                                    /\ row.user_id = loc[p].user_id} IN
  /\ pc[p] = "ro_find"
  /\ IF found = {}
       THEN /\ Reply(p, JSON(404, <<"API key not found">>))
            /\ UNCHANGED loc
     ELSE IF ~KeyIsExpired(CHOOSE row \in found : TRUE)
       THEN /\ Reply(p, JSON(400, <<"API key is not expired yet">>))
            /\ UNCHANGED loc
     ELSE /\ loc' = [loc EXCEPT ![p].apiKey = CHOOSE row \in found : TRUE]
          /\ pc' = [pc EXCEPT ![p] = "ck_count"]
          /\ UNCHANGED <<resp, okExecs>>
  /\ UNCHANGED <<balance, transactions, idemKeys, apiKeys, clock, hours, lock, router, cache, admitted, lately, users, wallets,
                 req, wr, sweeps>>

\* CreateAPIKey and RolloverAPIKey: count the caller's active keys, then
\* utils.ParseExpiry
CkCount(p) ==
  LET e == ParseExpiry(req[p].expiry, hours)
      create == req[p].path = PathKeysCreate
  IN
  /\ pc[p] = "ck_count"
  /\ IF ActiveCount(loc[p].user_id) >= MaxActiveKeys
       THEN /\ Reply(p, JSON(400, <<"Maximum of 5 active API keys allowed">>))
            /\ UNCHANGED loc
     ELSE IF ~e.ok
       THEN /\ Reply(p, JSON(400, <<"Invalid expiry format. Use 1H, 1D, 1M, or 1Y">>))
            /\ UNCHANGED loc
     ELSE /\ loc' = [loc EXCEPT ![p].apiKey =
                       KeyRow(0, loc[p].user_id, NoKey,
                              IF create THEN req[p].name ELSE loc[p].apiKey.name,
                              IF create THEN req[p].permissions
                                        ELSE loc[p].apiKey.permissions,
                              e.at)]
          /\ pc' = [pc EXCEPT ![p] = "ck_insert"]
          /\ UNCHANGED <<resp, okExecs>>
  /\ UNCHANGED <<balance, transactions, idemKeys, apiKeys, clock, hours, lock, router, cache, admitted, lately, users, wallets,
                 req, wr, sweeps>>

\* utils.GenerateAPIKey: a value no row holds
GenerateAPIKey == <<"plain", Cardinality(apiKeys) + 1>>

\* the value the handlers put in the key column: the key as generated
StoredKey(keyValue) == keyValue

\* database.DB.Create(&apiKey); 201 with the key value and its expiry
CkInsert(p) ==
  LET keyValue == GenerateAPIKey
      row == [loc[p].apiKey EXCEPT !.id = Cardinality(apiKeys) + 1,
                                   !.key = StoredKey(keyValue)]
  IN
  /\ pc[p] = "ck_insert"
  /\ apiKeys' = apiKeys \cup {row}
  /\ Reply(p, JSON(201, <<"api_key", keyValue, row.expires_at>>))
  /\ UNCHANGED <<balance, transactions, idemKeys, clock, hours, lock, router, cache, admitted, lately, users, wallets,
                 req, loc, wr, sweeps>>

\* ListAPIKeys: the caller's rows with is_expired computed
LsKeys(p) ==
  /\ pc[p] = "ls_keys"
  /\ Reply(p, JSON(200, <<"keys",
                          {[id |-> row.id, name |-> row.name,
                            permissions |-> row.permissions,
                            is_active |-> row.is_active,
                            is_expired |-> KeyIsExpired(row)] :
                             row \in {x \in apiKeys : x.user_id = loc[p].user_id}},
                          "", "">>))
  /\ UNCHANGED <<balance, transactions, idemKeys, apiKeys, clock, hours, lock, router, cache, admitted, lately, users, wallets,
                 req, loc, wr, sweeps>>

\* RevokeAPIKey: UPDATE is_active = false WHERE id = ? AND user_id = ?
RvUpdate(p) ==
  LET hit == {row \in apiKeys : row.id = req[p].key_id
                                  /\ row.user_id = loc[p].user_id} IN
  /\ pc[p] = "rv_update"
  /\ apiKeys' = (apiKeys \ hit) \cup {[row EXCEPT !.is_active = FALSE] : row \in hit}
  /\ Reply(p, IF hit = {} THEN JSON(404, <<"API key not found">>)
                         ELSE JSON(200, <<"API key revoked successfully">>))
  /\ UNCHANGED <<balance, transactions, idemKeys, clock, hours, lock, router, cache, admitted, lately, users, wallets,
                 req, loc, wr, sweeps>>

\* ------------------------------------------------------------ GoogleCallback
PathCallback == "/auth/google/callback"

\* the Google accounts that sign in: those of the owners u1 and u2
CallbackRequests ==
  {[NoReq EXCEPT !.path = PathCallback, !.code = code, !.debug = debug, !.google = g] :
     code \in {"", "code"}, debug \in BOOLEAN, g \in {w.user_id : w \in Wallet}}

\* GET /auth/google/callback arrives at an idle worker: the code and debug
\* query parameters
ReceiveCallback(p) ==
  /\ pc[p] = "idle"
  /\ \E r \in CallbackRequests :
       /\ req' = [req EXCEPT ![p] = r]
       /\ IF r.code = ""
            THEN /\ pc' = [pc EXCEPT ![p] = "done"]
                 /\ resp' = [resp EXCEPT ![p] = JSON(400, <<"Code not provided">>)]
          ELSE IF r.debug
            THEN /\ pc' = [pc EXCEPT ![p] = "done"]
                 /\ resp' = [resp EXCEPT ![p] = JSON(200, <<"code", r.code, "">>)]
          ELSE /\ pc' = [pc EXCEPT ![p] = "gc_exchange"]
               /\ UNCHANGED resp
  /\ UNCHANGED <<balance, transactions, idemKeys, apiKeys, users, wallets, clock, hours,
                 lock, router, cache, admitted, lately, loc, wr, sweeps, okExecs>>

\* googleOauthConfig.Exchange and the userinfo call answer or fail
GcExchange(p) ==
  /\ pc[p] = "gc_exchange"
  /\ \E outcome \in {"ok", "Failed to exchange token", "Failed to get user info",
                      "Failed to parse user info"} :
       IF outcome = "ok"
         THEN /\ pc' = [pc EXCEPT ![p] = "gc_find"]
              /\ UNCHANGED <<resp, okExecs>>
         ELSE Reply(p, JSON(500, <<outcome>>))
  /\ UNCHANGED <<balance, transactions, idemKeys, apiKeys, users, wallets, clock, hours,
                 lock, router, cache, admitted, lately, req, loc, wr, sweeps>>

\* SELECT the user by google_id
GcFind(p) ==
  /\ pc[p] = "gc_find"
  /\ loc' = [loc EXCEPT ![p].user_id = req[p].google]
  /\ pc' = [pc EXCEPT ![p] = IF req[p].google \in users THEN "gc_token"
                                                        ELSE "gc_createUser"]
  /\ UNCHANGED <<balance, transactions, idemKeys, apiKeys, users, wallets, clock, hours,
                 lock, router, cache, admitted, lately, req, wr, resp, sweeps, okExecs>>

\* database.DB.Create(&user): google_id and email are unique
GcCreateUser(p) ==
  /\ pc[p] = "gc_createUser"
  /\ IF loc[p].user_id \in users
       THEN /\ Reply(p, JSON(500, <<"Failed to create user">>))
            /\ UNCHANGED users
       ELSE /\ users' = users \cup {loc[p].user_id}
            /\ pc' = [pc EXCEPT ![p] = "gc_number"]
            /\ UNCHANGED <<resp, okExecs>>
  /\ UNCHANGED <<balance, transactions, idemKeys, apiKeys, wallets, clock, hours,
                 lock, router, cache, admitted, lately, req, loc, wr, sweeps>>

\* utils.GenerateWalletNumber: a random number, or the error of rand.Int
GcNumber(p) ==
  /\ pc[p] = "gc_number"
  /\ \/ /\ Reply(p, JSON(500, <<"Failed to generate wallet number">>))
        /\ UNCHANGED loc
     \/ \E n \in WalletNumbers :
          /\ loc' = [loc EXCEPT ![p].walletNumber = n]
          /\ pc' = [pc EXCEPT ![p] = "gc_createWallet"]
          /\ UNCHANGED <<resp, okExecs>>
  /\ UNCHANGED <<balance, transactions, idemKeys, apiKeys, users, wallets, clock, hours,
                 lock, router, cache, admitted, lately, req, wr, sweeps>>

\* the wallet row of owner u with number n
NewWallet(u, n) ==
  [id |-> (CHOOSE w \in Wallet : w.user_id = u).id, user_id |-> u, wallet_number |-> n]

\* database.DB.Create(&wallet): user_id and wallet_number are unique
GcCreateWallet(p) ==
  LET row == NewWallet(loc[p].user_id, loc[p].walletNumber) IN
  /\ pc[p] = "gc_createWallet"
  /\ IF WalletByUser(row.user_id) # {} \/ WalletByNumber(row.wallet_number) # {}
       THEN /\ Reply(p, JSON(500, <<"Failed to create wallet">>))
            /\ UNCHANGED <<wallets, balance>>
       ELSE /\ wallets' = wallets \cup {row}
            /\ balance' = [balance EXCEPT ![row.id] = 0]
            /\ pc' = [pc EXCEPT ![p] = "gc_token"]
            /\ UNCHANGED <<resp, okExecs>>
  /\ UNCHANGED <<transactions, idemKeys, apiKeys, users, clock, hours,
                 lock, router, cache, admitted, lately, req, loc, wr, sweeps>>

\* utils.GenerateJWT, SELECT the wallet, 200 with the token and the user
GcToken(p) ==
  /\ pc[p] = "gc_token"
  /\ Reply(p, JSON(200, <<"token", loc[p].user_id,
                          {w.wallet_number : w \in WalletByUser(loc[p].user_id)}>>))
  /\ UNCHANGED <<balance, transactions, idemKeys, apiKeys, users, wallets, clock, hours,
                 lock, router, cache, admitted, lately, req, loc, wr, sweeps>>

\* ------------------------------------------------------- RateLimitByAPIKey
\* requests allowed per window
RateLimitCap == 100

\* time.Minute in readings of the clock
RateWindow == 2

\* a request reaches the rate guard with the api_key_id AuthMiddleware set,
\* or with none (key_id 0) when it came with a token
RatedRequests ==
  {[NoReq EXCEPT !.path = PathBalance, !.key_id = k] : k \in RatedKeys \cup {0}}

\* c.Get("api_key_id"): without it the guard calls c.Next() at once
ReceiveRated(p) ==
  /\ pc[p] = "idle"
  /\ \E r \in RatedRequests :
       /\ req' = [req EXCEPT ![p] = r]
       /\ pc' = [pc EXCEPT ![p] = IF r.key_id = 0 THEN "rl_next" ELSE "rl_read"]
  /\ UNCHANGED <<balance, transactions, idemKeys, apiKeys, users, wallets, cache, admitted, lately,
                 clock, hours, lock, router, loc, wr, resp, sweeps, okExecs>>

\* requests let through per window when workers race
MaxRaced == 3

\* a request reaches the guard while few were let through in the window
ReceiveRaced(p) ==
  /\ \A k \in RatedKeys : admitted[k] < MaxRaced
  /\ ReceiveRated(p)

OverCap_Never(count) == FALSE

\* data.count >= 100
OverCap(count) == count >= RateLimitCap

\* now := time.Now(); data, exists := cache[keyID]; the reads of
\* data.resetTime and data.count
RlRead(p) ==
  LET d == cache[req[p].key_id] IN
  /\ pc[p] = "rl_read"
  /\ loc' = [loc EXCEPT ![p].now = clock, ![p].data = d]
  /\ IF d.exists /\ ~(clock > d.resetTime) /\ OverCap(d.count)
       THEN /\ resp' = [resp EXCEPT ![p] = JSON(429, <<"Rate limit exceeded">>)]
            /\ pc' = [pc EXCEPT ![p] = "done"]
       ELSE /\ pc' = [pc EXCEPT ![p] = "rl_write"]
            /\ UNCHANGED resp
  /\ UNCHANGED <<balance, transactions, idemKeys, apiKeys, users, wallets, cache, admitted, lately,
                 clock, hours, lock, router, req, wr, sweeps, okExecs>>

\* a fresh window: count 1, resetTime one minute after now
FreshWindow(now) == [exists |-> TRUE, count |-> 1, resetTime |-> now + RateWindow]

\* the write that follows the reads: cache[keyID] = &rateLimitData{...} when
\* there was no entry or its window had elapsed, else the store of
\* data.count++ into the entry that is in the map now
RlWrite(p) ==
  LET k == req[p].key_id
      d == loc[p].data
      fresh == ~d.exists \/ loc[p].now > d.resetTime
  IN
  /\ pc[p] = "rl_write"
  /\ cache' = [cache EXCEPT ![k] = IF fresh THEN FreshWindow(loc[p].now)
                                            ELSE [cache[k] EXCEPT !.count = d.count + 1]]
  /\ admitted' = [admitted EXCEPT ![k] = IF fresh THEN 1 ELSE @ + 1]
  /\ pc' = [pc EXCEPT ![p] = "rl_next"]
  /\ UNCHANGED <<balance, transactions, idemKeys, apiKeys, users, wallets,
                 clock, hours, lock, router, req, loc, wr, resp, sweeps, okExecs>>

\* the history of the requests let through stays as it is
Unlogged(p) == UNCHANGED lately

\* the history of the requests let through takes up the request of p, let
\* through at the reading p took for now
Logged(p) ==
  lately' = [lately EXCEPT ![req[p].key_id] =
               IF loc[p].now = @.at THEN [@ EXCEPT !.n = @ + 1]
               ELSE [at |-> loc[p].now, n |-> 1,
                     before |-> IF loc[p].now = @.at + 1 THEN @.n ELSE 0]]

\* the Go runtime finds the map written while another goroutine is inside
\* the guard ("concurrent map read and map write") and ends the process
RlFatal(p) ==
  /\ pc[p] = "rl_write"
  /\ ~loc[p].data.exists \/ loc[p].now > loc[p].data.resetTime
  /\ \E q \in Procs \ {p} : pc[q] \in {"rl_read", "rl_write"}
  /\ pc' = [q \in Procs |-> "exited"]
  /\ UNCHANGED <<balance, transactions, idemKeys, apiKeys, users, wallets, cache, admitted, lately,
                 clock, hours, lock, router, req, loc, wr, resp, sweeps, okExecs>>

\* c.Next(): the rest of the chain answers
RlNext(p) ==
  /\ pc[p] = "rl_next"
  /\ resp' = [resp EXCEPT ![p] = JSON(200, <<"next">>)]
  /\ pc' = [pc EXCEPT ![p] = "done"]
  /\ UNCHANGED <<balance, transactions, idemKeys, apiKeys, users, wallets, cache, admitted, lately,
                 clock, hours, lock, router, req, loc, wr, sweeps, okExecs>>

\* time passes
Tick ==
  /\ clock < MaxClock
  /\ clock' = clock + 1
  /\ UNCHANGED <<balance, transactions, idemKeys, apiKeys, users, wallets, cache, admitted, lately,
                 hours, lock, router, pc, req, loc, wr, resp, sweeps, okExecs>>

\* ---------------------------------------------------------- PaystackWebhook
WebhookRequest(key, json, ev, ref, a) ==
  LET r == [NoReq EXCEPT !.path = PathWebhook, !.valid_json = json, !.event = ev,
                         !.reference = ref, !.amount = a]
  IN [r EXCEPT !.signature = IF key = "" THEN <<>> ELSE Hmac(key, WebhookBody(r))]

\* notifications about the references refs
WebhookRequests(refs) ==
  {WebhookRequest(PaystackSecretKey, TRUE, "charge.success", ref, a) :
     ref \in refs, a \in WebhookAmounts}
    \cup {WebhookRequest(PaystackSecretKey, TRUE, "charge.failed", ref, 1) : ref \in refs}
    \cup {WebhookRequest("sk_forged", TRUE, "charge.success", ref, 1) : ref \in refs}
    \cup {WebhookRequest("", TRUE, "charge.success", NoRef, 1),
          WebhookRequest(PaystackSecretKey, FALSE, "charge.success", NoRef, 1)}

ChargeSuccess_AnyEvent(ev) == TRUE

\* event.Event == "charge.success"
ChargeSuccess(ev) == ev = "charge.success"

\* the handler up to the call of processSuccessfulDeposit
WebhookEntry(r) ==
  IF r.signature = <<>>
    THEN [pc |-> "done", resp |-> JSON(400, <<"Missing signature">>)]
  ELSE IF ~verifyPaystackSignature(WebhookBody(r), r.signature)
    THEN [pc |-> "done", resp |-> JSON(401, <<"Invalid signature">>)]
  ELSE IF ~r.valid_json
    THEN [pc |-> "done", resp |-> JSON(400, <<"Invalid request body">>)]
  ELSE IF ~ChargeSuccess(r.event)
    THEN [pc |-> "done", resp |-> JSON(200, <<"status", TRUE>>)]
  ELSE [pc |-> "wh_find", resp |-> NoResp]

\* POST /wallet/paystack/webhook arrives at an idle worker
ReceiveWebhook(p) ==
  /\ pc[p] = "idle"
  /\ \E r \in WebhookRequests({t.reference : t \in transactions} \cup {NoRef}) :
       LET e == WebhookEntry(r) IN
       /\ req' = [req EXCEPT ![p] = r]
       /\ pc' = [pc EXCEPT ![p] = e.pc]
       /\ resp' = [resp EXCEPT ![p] = e.resp]
  /\ UNCHANGED <<balance, transactions, idemKeys, clock, hours, lock, router, cache, admitted, lately, users, wallets, apiKeys, loc, wr,
                 sweeps, okExecs>>

AlreadyProcessed_NoCheck(t) == FALSE

\* transaction.Status == models.TransactionStatusSuccess
AlreadyProcessed(t) == t.status = TransactionStatusSuccess

\* processSuccessfulDeposit: SELECT the record by reference, then the
\* already-processed check
WhFind(p) ==
  /\ pc[p] = "wh_find"
  /\ LET ts == TxByReference(req[p].reference) IN
     IF ts = {}
       THEN /\ Reply(p, JSON(500, <<"Failed to process deposit">>))
            /\ UNCHANGED loc
       ELSE LET t == CHOOSE x \in ts : TRUE IN
            IF AlreadyProcessed(t)
              THEN /\ Reply(p, JSON(200, <<"status", TRUE>>))
                   /\ UNCHANGED loc
              ELSE /\ loc' = [loc EXCEPT ![p].transaction = t]
                   /\ pc' = [pc EXCEPT ![p] = "wh_saveTx"]
                   /\ UNCHANGED <<resp, okExecs>>
  /\ UNCHANGED <<balance, transactions, idemKeys, clock, hours, lock, router, cache, admitted, lately, users, wallets, apiKeys, req, wr, sweeps>>

MarkSuccess_Refunded(t) == [t EXCEPT !.status = "refunded"]

\* transaction.Status = models.TransactionStatusSuccess
MarkSuccess(t) == [t EXCEPT !.status = TransactionStatusSuccess]

\* transaction.Status = success; tx.Save(&transaction)
WhSaveTx(p) ==
  /\ pc[p] = "wh_saveTx"
  /\ CanLock(p, "transactions", loc[p].transaction.reference)
  /\ lock' = [lock EXCEPT !.transactions = @ \cup {<<loc[p].transaction.reference, p>>}]
  /\ wr' = [wr EXCEPT ![p].upd =
              @ \cup {MarkSuccess(loc[p].transaction)}]
  /\ pc' = [pc EXCEPT ![p] = "wh_wallet"]
  /\ UNCHANGED <<balance, transactions, idemKeys, clock, hours, router, cache, admitted, lately, users, wallets, apiKeys, req, loc,
                 resp, sweeps, okExecs>>

\* SELECT the wallet of the record's owner
WhWallet(p) ==
  /\ pc[p] = "wh_wallet"
  /\ LET ws == WalletByUser(loc[p].transaction.user_id) IN
     IF ws = {}
       THEN /\ Rollback(p)
            /\ Reply(p, JSON(500, <<"Failed to process deposit">>))
            /\ UNCHANGED loc
       ELSE LET w == CHOOSE x \in ws : TRUE IN
            /\ loc' = [loc EXCEPT ![p].recipient = w.id,
                                  ![p].recipientBal = balance[w.id]]
            /\ pc' = [pc EXCEPT ![p] = "wh_saveWallet"]
            /\ UNCHANGED <<ledger, lock, wr, resp, okExecs>>
  /\ UNCHANGED <<idemKeys, clock, hours, router, cache, admitted, lately, users, wallets, apiKeys, req, sweeps>>

\* wallet.Balance += amount; tx.Save(&wallet)
WhSaveWallet(p) ==
  /\ pc[p] = "wh_saveWallet"
  /\ CanLock(p, "wallets", loc[p].recipient)
  /\ lock' = [lock EXCEPT !.wallets = @ \cup {<<loc[p].recipient, p>>}]
  /\ wr' = [wr EXCEPT ![p].bal =
              (loc[p].recipient :> Credit(loc[p].recipientBal, req[p].amount)) @@ @]
  /\ pc' = [pc EXCEPT ![p] = "wh_commit"]
  /\ UNCHANGED <<balance, transactions, idemKeys, clock, hours, router, cache, admitted, lately, users, wallets, apiKeys, req, loc,
                 resp, sweeps, okExecs>>

\* the unit returns nil: COMMIT, then the 200 response
WhCommit(p) ==
  /\ pc[p] = "wh_commit"
  /\ Commit(p)
  /\ Reply(p, JSON(200, <<"status", TRUE>>))
  /\ UNCHANGED <<idemKeys, clock, hours, router, cache, admitted, lately, users, wallets, apiKeys, req, loc, sweeps>>

\* a statement of the open unit fails in the database
WhDbError(p) ==
  /\ pc[p] \in {"wh_saveTx", "wh_wallet", "wh_saveWallet", "wh_commit"}
  /\ Rollback(p)
  /\ Reply(p, JSON(500, <<"Failed to process deposit">>))
  /\ UNCHANGED <<idemKeys, clock, hours, router, cache, admitted, lately, users, wallets, apiKeys, req, loc, sweeps>>

\* ------------------------------------------------------------ lock waits
\* the worker whose open unit holds what p's next statement waits for
BlockedBy(p) ==
  LET waits == CASE pc[p] = "tf_saveSender" ->
                       {l \in lock.wallets : l[1] = loc[p].sender}
                 [] pc[p] \in {"tf_saveRecipient", "wh_saveWallet"} ->
                       {l \in lock.wallets : l[1] = loc[p].recipient}
                 [] pc[p] = "wh_saveTx" ->
                       {l \in lock.transactions : l[1] = loc[p].transaction.reference}
                 [] OTHER -> {}
      holders == {l[2] : l \in waits} \ {p}
  IN IF holders = {} THEN NoProc ELSE CHOOSE q \in holders : TRUE

\* two units wait for each other's row lock: the database ends one of them
\* with a deadlock error
DeadlockAbort(p) ==
  /\ BlockedBy(p) # NoProc
  /\ BlockedBy(BlockedBy(p)) = p
  /\ Rollback(p)
  /\ Reply(p, JSON(500, IF req[p].path = PathTransfer
                          THEN <<"Transfer failed">>
                          ELSE <<"Failed to process deposit">>))
  /\ UNCHANGED <<idemKeys, clock, hours, router, cache, admitted, lately, users, wallets, apiKeys, req, loc, sweeps>>


\* ---------------------------------------------------- IdempotencyMiddleware
\* models.IdempotencyKey.IsExpired
IsExpired(k) == hours > k.expires_at

\* database.DB.Where("key = ? AND user_id = ?", keyHash, userID)
IdemRows(p) ==
  {k \in idemKeys : /\ k.key = KeyHash(loc[p].user_id, req[p].path, req[p].token)
                    /\ k.user_id = loc[p].user_id}

\* c.Next(): the wrapped handler starts, its response is captured
IdemContinue(p) ==
  LET e == EnterHandler(req[p]) IN
  /\ pc' = [pc EXCEPT ![p] = IF e.pc = "bad" THEN "id_store" ELSE e.pc]
  /\ resp' = [resp EXCEPT ![p] = e.resp]

\* the look-up of the key: replay the stored response, or go on
IdLookup(p) ==
  /\ pc[p] = "id_lookup"
  /\ IF IdemRows(p) = {}
       THEN IdemContinue(p)
       ELSE LET existingKey == CHOOSE k \in IdemRows(p) : TRUE IN
            IF IsExpired(existingKey)
              THEN /\ pc' = [pc EXCEPT ![p] = "id_delete"]
                   /\ UNCHANGED resp
              ELSE /\ resp' = [resp EXCEPT ![p] =
                                 JSON(existingKey.response_code, existingKey.response_body)]
                   /\ pc' = [pc EXCEPT ![p] = "done"]
  /\ UNCHANGED <<balance, transactions, idemKeys, clock, hours, lock, router, cache, admitted, lately, users, wallets, apiKeys, req, loc,
                 wr, sweeps, okExecs>>

\* database.DB.Delete(&existingKey), then c.Next()
IdDelete(p) ==
  /\ pc[p] = "id_delete"
  /\ idemKeys' = idemKeys \ IdemRows(p)
  /\ IdemContinue(p)
  /\ UNCHANGED <<balance, transactions, clock, hours, lock, router, cache, admitted, lately, users, wallets, apiKeys, req, loc, wr,
                 sweeps, okExecs>>

StoresResponse_Above200(code) == code > 200 /\ code < 300

StoresResponse_Always(code) == TRUE

\* the 2xx test on the captured status code
StoresResponse(code) == code >= 200 /\ code < 300

newKey_TwoDays(p) ==
  [key |-> KeyHash(loc[p].user_id, req[p].path, req[p].token),
   user_id |-> loc[p].user_id,
   request_path |-> req[p].path,
   request_body |-> <<req[p].wallet_number, req[p].amount>>,
   response_code |-> resp[p].code,
   response_body |-> resp[p].body,
   expires_at |-> hours + 2 * IdemTTLHours]

newKey(p) ==
  [key |-> KeyHash(loc[p].user_id, req[p].path, req[p].token),
   user_id |-> loc[p].user_id,
   request_path |-> req[p].path,
   request_body |-> <<req[p].wallet_number, req[p].amount>>,
   response_code |-> resp[p].code,
   response_body |-> resp[p].body,
   expires_at |-> hours + IdemTTLHours]

\* after c.Next(): a 2xx response is stored under the key (the key column is
\* unique: a second insert of it fails and the error is dropped) and the
\* clean-up goroutine is started
IdStore(p) ==
  /\ pc[p] = "id_store"
  /\ IF StoresResponse(resp[p].code)
       THEN /\ idemKeys' = IF \E k \in idemKeys : k.key = newKey(p).key
                             THEN idemKeys
                             ELSE idemKeys \cup {newKey(p)}
            /\ sweeps' = IF sweeps < MaxSweeps THEN sweeps + 1 ELSE sweeps
       ELSE UNCHANGED <<idemKeys, sweeps>>
  /\ pc' = [pc EXCEPT ![p] = "done"]
  /\ UNCHANGED <<balance, transactions, clock, hours, lock, router, cache, admitted, lately, users, wallets, apiKeys, req, loc, wr,
                 resp, okExecs>>

\* the clean-up goroutine: DELETE the rows with expires_at < now
Sweep ==
  /\ sweeps > 0
  /\ sweeps' = sweeps - 1
  /\ idemKeys' = {k \in idemKeys : ~(k.expires_at < hours)}
  /\ UNCHANGED <<balance, transactions, clock, hours, lock, router, cache, admitted, lately, users, wallets, apiKeys, pc, req, loc, wr,
                 resp, okExecs>>

\* hours pass, and with them nanoseconds
AdvanceHours ==
  /\ clock < MaxClock
  /\ \E h \in {TickHours, 2 * TickHours} :
       /\ hours + h <= MaxHours
       /\ hours' = hours + h
  /\ clock' = clock + 1
  /\ UNCHANGED <<balance, transactions, idemKeys, lock, router, cache, admitted, lately, users, wallets, apiKeys, pc, req, loc,
                 wr, resp, sweeps, okExecs>>

\* ---------------------------------------------------------- specifications
Transfers(p) ==
  \/ ReceiveTransfer(p) \/ TfSender(p) \/ TfRecipient(p) \/ TfSaveSender(p)
  \/ TfSaveRecipient(p) \/ TfSenderTx(p) \/ TfRecipientTx(p) \/ TfCommit(p)
  \/ TfDbError(p) \/ Return(p)

Deposits(p) == ReceiveDeposit(p) \/ DpWallet(p) \/ DpCreate(p) \/ DpPaystack(p)

Webhooks(p) ==
  \/ ReceiveWebhook(p) \/ WhFind(p) \/ WhSaveTx(p) \/ WhWallet(p)
  \/ WhSaveWallet(p) \/ WhCommit(p) \/ WhDbError(p)

Middleware(p) == IdLookup(p) \/ IdDelete(p) \/ IdStore(p)

Reads(p) == RdBalance(p) \/ RdHistory(p)

GoogleCallback(p) ==
  \/ ReceiveCallback(p) \/ GcExchange(p) \/ GcFind(p) \/ GcCreateUser(p)
  \/ GcNumber(p) \/ GcCreateWallet(p) \/ GcToken(p) \/ Return(p)

Keys(p) ==
  \/ ReceiveCreate(p) \/ ReceiveRollover(p) \/ ReceiveList(p) \/ ReceiveRevoke(p)
  \/ RoFind(p) \/ CkCount(p) \/ CkInsert(p) \/ LsKeys(p) \/ RvUpdate(p)

\* the service as main() wires it, requests served concurrently
Next == \E p \in Procs : Transfers(p) \/ Deposits(p) \/ Webhooks(p) \/ DeadlockAbort(p)

Spec == Init /\ [][Next]_vars

\* the same service serving one request at a time
NextSeq == Transfers("p1") \/ Deposits("p1") \/ Webhooks("p1")

SpecSeq == Init /\ [][NextSeq]_vars

\* transfers between funded wallets, one at a time
NextSeqTransfers == Transfers("p1")

SpecSeqTransfers == InitFunded /\ [][NextSeqTransfers]_vars

\* provider notifications while a deposit is pending, one at a time
NextSeqWebhooks == Webhooks("p1") \/ Return("p1")

SpecSeqWebhooks == InitPending /\ [][NextSeqWebhooks]_vars

\* concurrent transfers between funded wallets
NextTransfers == \E p \in Procs : Transfers(p) \/ DeadlockAbort(p)

SpecTransfers == InitFunded /\ [][NextTransfers]_vars

\* concurrent provider notifications while a deposit is pending
NextWebhooks == \E p \in Procs : Webhooks(p) \/ Return(p)

SpecWebhooks == InitPending /\ [][NextWebhooks]_vars

\* the permission-guarded routes called by every kind of caller, one request
\* at a time
NextGuard ==
  \/ ReceiveGuarded("p1") \/ Reads("p1")
  \/ TfSender("p1") \/ TfRecipient("p1") \/ TfSaveSender("p1")
  \/ TfSaveRecipient("p1") \/ TfSenderTx("p1") \/ TfRecipientTx("p1")
  \/ TfCommit("p1") \/ TfDbError("p1")
  \/ DpWallet("p1") \/ DpCreate("p1") \/ DpPaystack("p1") \/ Return("p1")

SpecGuard == InitFunded /\ [][NextGuard]_vars

\* key management and reads over two days, one request at a time
NextKeys ==
  \/ Keys("p1") \/ ReceiveRead("p1") \/ Reads("p1") \/ Return("p1")
  \/ AdvanceHours

SpecKeys == InitFunded /\ [][NextKeys]_vars

\* concurrent create, rollover and revoke calls when u1 is one key short of
\* the limit
NextLimit ==
  \/ \E p \in Procs :
        \/ ReceiveOwnerCreate(p) \/ ReceiveOwnerRevoke(p)
        \/ RoFind(p) \/ CkCount(p) \/ CkInsert(p) \/ RvUpdate(p) \/ Return(p)
  \/ AdvanceHours

SpecLimit == InitLimit /\ [][NextLimit]_vars

\* requests through the rate guard, one at a time
NextRateSeq ==
  \/ ReceiveRated("p1") \/ RlRead("p1") \/ (RlWrite("p1") /\ Unlogged("p1"))
  \/ RlNext("p1") \/ Return("p1") \/ Tick

SpecRateSeq == Init /\ [][NextRateSeq]_vars

\* requests through the rate guard, served concurrently
NextRate ==
  \/ \E p \in Procs :
        \/ ReceiveRaced(p) \/ RlRead(p) \/ (RlWrite(p) /\ Unlogged(p))
        \/ RlFatal(p) \/ RlNext(p) \/ Return(p)
  \/ Tick

SpecRate == Init /\ [][NextRate]_vars

\* a request with the key reaches the guard
ReceiveKeyed(p) ==
  /\ ReceiveRated(p)
  /\ req'[p].key_id # 0

\* time passes between two requests
TickIdle ==
  /\ \A p \in Procs : pc[p] = "idle"
  /\ Tick

\* requests of one key through the rate guard, one at a time, with the
\* history of the readings at which they were let through
NextBurst ==
  \/ ReceiveKeyed("p1") \/ RlRead("p1") \/ (RlWrite("p1") /\ Logged("p1"))
  \/ RlNext("p1") \/ Return("p1") \/ TickIdle

SpecBurst == Init /\ [][NextBurst]_vars

\* sign-ins on a new deployment, served concurrently
NextOnboard == \E p \in Procs : GoogleCallback(p)

SpecOnboard == InitEmpty /\ [][NextOnboard]_vars

\* transfers through IdempotencyMiddleware over two days, one request at a
\* time
NextIdemSeq == Transfers("p1") \/ Middleware("p1") \/ AdvanceHours \/ Sweep

SpecIdemSeq == InitIdem /\ [][NextIdemSeq]_vars

\* transfers between the two owners and deposits of u2, without tokens
PlainTransfers ==
  {TransferRequest(JwtOf(u), "", n, 1) : u \in {"u1", "u2"}, n \in {"n1", "n2"}}

ReceivePlainTransfer(p) == \E r \in PlainTransfers : Receive(p, r, "transfer")

ReceivePlainDeposit(p) == Receive(p, DepositRequest(JwtOf("u2"), "", 1), "deposit")

\* concurrent transfers and deposits whose references are generated from
\* the same or from neighbouring clock readings
NextRefs ==
  \E p \in Procs :
    \/ ReceivePlainTransfer(p) \/ ReceivePlainDeposit(p)
    \/ TfSender(p) \/ TfRecipient(p) \/ TfSaveSender(p) \/ TfSaveRecipient(p)
    \/ TfSenderTx(p) \/ TfRecipientTx(p) \/ TfCommit(p) \/ TfDbError(p)
    \/ DpWallet(p) \/ DpCreate(p) \/ DpPaystack(p)
    \/ DeadlockAbort(p) \/ Return(p)

SpecRefs == InitFunded /\ [][NextRefs]_vars

\* transfers and deposits through IdempotencyMiddleware, one request at a
\* time, over two days
TokenRequests ==
  {TransferRequest(JwtOf(u), "k1", n, 1) : u \in {"u1", "u2"}, n \in {"n1", "n2"}}
    \cup {DepositRequest(JwtOf(u), "k1", 1) : u \in {"u1", "u2"}}

ReceiveToken(p) ==
  \E r \in TokenRequests :
    Receive(p, r, IF r.path = PathTransfer THEN "transfer" ELSE "deposit")

NextIdemPaths ==
  \/ ReceiveToken("p1")
  \/ TfSender("p1") \/ TfRecipient("p1") \/ TfSaveSender("p1")
  \/ TfSaveRecipient("p1") \/ TfSenderTx("p1") \/ TfRecipientTx("p1")
  \/ TfCommit("p1") \/ TfDbError("p1")
  \/ DpWallet("p1") \/ DpCreate("p1") \/ DpPaystack("p1")
  \/ Middleware("p1") \/ Return("p1") \/ AdvanceHours

SpecIdemPaths == InitIdem /\ [][NextIdemPaths]_vars

\* status queries by every kind of caller while deposits are pending and
\* confirmed, one request at a time
NextStatus ==
  \/ ReceiveStatus("p1") \/ GdStatus("p1") \/ Webhooks("p1") \/ Return("p1")

SpecStatus == InitPending /\ [][NextStatus]_vars

\* concurrent transfers through IdempotencyMiddleware within the first day
NextIdem ==
  \/ \E p \in Procs : Transfers(p) \/ IdLookup(p) \/ IdStore(p) \/ DeadlockAbort(p)
  \/ Sweep

SpecIdem == InitIdem /\ [][NextIdem]_vars

\* ------------------------------------------------------------- properties
BalanceTotal == balance["w1"] + balance["w2"]

TheWallet(u) == CHOOSE w \in WalletByUser(u) : TRUE

RECURSIVE SumAmounts(_)
SumAmounts(S) ==
  IF S = {} THEN 0
  ELSE LET t == CHOOSE x \in S : TRUE IN t.amount + SumAmounts(S \ {t})

\* the request r is served by worker p during this step
Serving(p, r) == (pc[p] # "idle" /\ req[p] = r) \/ (pc[p] = "idle" /\ req'[p] = r)

\* the request worker p serves during this step (NoReq when it serves none)
Served(p) == IF pc[p] # "idle" THEN req[p] ELSE req'[p]

InsufficientError == JSON(400, <<"Insufficient balance">>)
SelfTransferError == JSON(400, <<"Cannot transfer to your own wallet">>)
Acknowledged == JSON(200, <<"status", TRUE>>)

\* a well-formed transfer request of a caller who owns a wallet
TransferCall(r) ==
  /\ r.path = PathTransfer
  /\ BindTransfer(r)
  /\ WalletByUser(AuthMiddleware(r.cred)) # {}

\* C1: every step of a TransferFunds call, successful or rejected, in either
\* direction, served one at a time, leaves balance(w1) + balance(w2) as it was.
C1_Conservation ==
  [][(\E p \in Procs : Served(p).path = PathTransfer) => BalanceTotal' = BalanceTotal]_vars

\* a transfer has been committed and answered
C1_Witness ==
  \E p \in Procs : /\ pc[p] = "done"
                   /\ req[p].path = PathTransfer
                   /\ resp[p].code = 200
                   /\ \E t \in transactions : t.type = TransactionTypeCredit

\* C2: concurrent transfers leave the balances as some serial order would:
\* the total is the funded total and every wallet's balance is its funded
\* balance minus its committed debit legs plus its committed credit legs.
C2_Serializable ==
  /\ BalanceTotal = FundedBalance
  /\ \A w \in Wallet :
       balance[w.id] =
         FundedTables.balance[w.id]
           - SumAmounts({t \in transactions : /\ t.user_id = w.user_id
                                              /\ t.type = TransactionTypeTransfer})
           + SumAmounts({t \in transactions : /\ t.user_id = w.user_id
                                              /\ t.type = TransactionTypeCredit})

\* C3: every wallet's committed balance is >= 0.
C3_NonNegative == \A w \in WalletIds : balance[w] >= 0

\* C4: a transfer whose amount exceeds the sender's balance ends with the
\* insufficient-funds error at the balance check, and no step of the call
\* changes a balance or the transaction records.
C4_InsufficientFunds ==
  [][\A p \in Procs :
       LET r == Served(p) IN
       (TransferCall(r) /\ r.amount > balance[TheWallet(AuthMiddleware(r.cred)).id])
         => /\ ledger' = ledger
            /\ pc'[p] \in {"tf_sender", "done", "idle"}
            /\ pc'[p] = "done" => resp'[p] = InsufficientError]_vars

\* a transfer to an existing wallet was refused for insufficient funds
C4_Witness ==
  \E p \in Procs : /\ pc[p] = "done"
                   /\ resp[p] = InsufficientError
                   /\ WalletByNumber(req[p].wallet_number) # {}
                   /\ WalletByNumber(req[p].wallet_number) # WalletByUser(loc[p].user_id)

\* a well-formed transfer request whose wallet number is the caller's own
SelfCall(r) ==
  /\ TransferCall(r)
  /\ WalletByNumber(r.wallet_number) = WalletByUser(AuthMiddleware(r.cred))

\* C5 as stated: a transfer to the sender's own wallet ends with the
\* self-transfer error whatever the amount and the balance, and changes no
\* balance.
C5_AlwaysSelfTransferError ==
  [][\A p \in Procs :
       SelfCall(Served(p))
         => /\ balance' = balance
            /\ pc'[p] = "done" => resp'[p] = SelfTransferError]_vars

\* C5 amended: a transfer to the sender's own wallet changes no balance and
\* ends with the self-transfer error when the amount is within the sender's
\* balance, with the insufficient-funds error when it is not.
C5_SelfTransferRejected ==
  [][\A p \in Procs :
       LET r == Served(p) IN
       SelfCall(r)
         => /\ ledger' = ledger
            /\ pc'[p] = "done" =>
                 resp'[p] = IF r.amount > balance[TheWallet(AuthMiddleware(r.cred)).id]
                              THEN InsufficientError
                              ELSE SelfTransferError]_vars

\* a transfer to the sender's own wallet met the self-transfer check
C5_Witness ==
  \E p \in Procs : /\ pc[p] = "done"
                   /\ SelfCall(req[p])
                   /\ resp[p] = SelfTransferError

\* a correctly signed, well-formed charge.success notification
ValidNotification(r) ==
  /\ r.path = PathWebhook
  /\ verifyPaystackSignature(WebhookBody(r), r.signature)
  /\ r.valid_json
  /\ r.event = "charge.success"

\* C6: deliveries of a charge.success notification served one after another
\* credit the wallet once: a delivery changes a balance only by committing
\* the pending record of its reference as success together with the credit of
\* its amount to the owner, a delivery for a record that is already success
\* changes no balance and is acknowledged with 200, and a success record
\* stays as it is.
C6_CreditedOnce ==
  [][/\ \A p \in Procs :
          LET r == Served(p)
              ts == TxByReference(r.reference) IN
          ValidNotification(r)
            => /\ balance' # balance =>
                    \E t \in ts :
                      /\ t.status = TransactionStatusPending
                      /\ [t EXCEPT !.status = TransactionStatusSuccess] \in transactions'
                      /\ balance' = [balance EXCEPT ![TheWallet(t.user_id).id] =
                                                      @ + r.amount]
               /\ (\E t \in ts : t.status = TransactionStatusSuccess)
                    => /\ balance' = balance
                       /\ pc'[p] = "done" => resp'[p] = Acknowledged
     /\ \A t \in transactions : t.status = TransactionStatusSuccess => t \in transactions'
    ]_vars

\* a notification for an already confirmed deposit was acknowledged without
\* loading a pending record
C6_Witness ==
  \E p \in Procs :
    /\ pc[p] = "done"
    /\ ValidNotification(req[p])
    /\ resp[p] = Acknowledged
    /\ loc[p].transaction = NoTx
    /\ \E t \in TxByReference(req[p].reference) :
         /\ t.type = TransactionTypeDeposit
         /\ t.status = TransactionStatusSuccess
         /\ balance[TheWallet(t.user_id).id] # 0

\* C7: of two concurrent deliveries of the same charge.success notification,
\* one that commits a change of balance commits it for a record that is still
\* pending (the reference is credited once).
C7_ConcurrentCreditedOnce ==
  [][\A p, q \in Procs :
       (/\ p # q
        /\ req[p] = req[q]
        /\ ValidNotification(req[p])
        /\ pc[p] = "wh_commit"
        /\ balance' # balance)
         => \E t \in TxByReference(req[p].reference) :
              t.status = TransactionStatusPending]_vars

\* the fingerprint of the request worker p serves
Fp(p) == KeyHash(loc[p].user_id, req[p].path, req[p].token)

\* the 2xx executions recorded for fingerprint f at most 24 hours ago
Recent(f) == {i \in DOMAIN okExecs[f] : hours <= okExecs[f][i].at + IdemTTLHours}

C9_AtMostOnce == \A f \in Fingerprints : Len(okExecs[f]) <= 1

\* C10: a request with an idempotency token is inside TransferFunds or
\* InitiateDeposit only after the idempotency middleware's look-up.
C10_PassesCache ==
  \A p \in Procs :
    (/\ req[p].path \in {PathTransfer, PathDeposit}
     /\ req[p].token # ""
     /\ pc[p] \notin {"idle", "done", "id_lookup", "id_delete", "id_store"})
      => loc[p].idem

\* the wallet a wallet number names
WalletOfNumber(n) == CHOOSE w \in WalletByNumber(n) : TRUE

\* C11: a TransferFunds call changes the balances or the transaction log
\* only in the commit that ends it with 200, and that commit debits the
\* sender and credits the recipient by the amount together; a call that
\* fails, at whatever statement of its unit, changes neither.
C11_FailureChangesNothing ==
  [][\A p \in Procs :
       Served(p).path = PathTransfer
         => /\ ledger' # ledger =>
                 /\ pc[p] = "tf_commit"
                 /\ resp'[p].code = 200
                 /\ balance' =
                      [balance EXCEPT
                         ![TheWallet(AuthMiddleware(req[p].cred)).id] = @ - req[p].amount,
                         ![WalletOfNumber(req[p].wallet_number).id] = @ + req[p].amount]
            /\ (pc'[p] = "done" /\ resp'[p].code # 200) => ledger' = ledger]_vars

\* a transfer failed after its unit had saved both balances and generated
\* the reference of the sender's record
C11_Witness ==
  \E p \in Procs : /\ pc[p] = "done"
                   /\ req[p].path = PathTransfer
                   /\ resp[p] = JSON(500, <<"Transfer failed">>)
                   /\ loc[p].recipient # NoWallet
                   /\ loc[p].reference # NoRef
                   /\ wr[p] = NoWr

\* C12: a successful TransferFunds call adds exactly two records with two
\* different references, both success and of the transferred amount: the
\* sender's leg naming the recipient's wallet and the recipient's leg naming
\* the sender's wallet; any other step of a transfer call adds no record.
C12_TwoLegs ==
  [][\A p \in Procs :
       Served(p).path = PathTransfer
         => IF pc[p] = "tf_commit" /\ pc'[p] # "tf_commit" /\ resp'[p].code = 200
              THEN LET s == TheWallet(AuthMiddleware(req[p].cred))
                       r == WalletOfNumber(req[p].wallet_number) IN
                   \E d, c \in transactions' \ transactions :
                     /\ transactions' = transactions \cup {d, c}
                     /\ d.reference # c.reference
                     /\ \A t \in {d, c} : /\ t.status = TransactionStatusSuccess
                                          /\ t.amount = req[p].amount
                     /\ d.type = TransactionTypeTransfer
                     /\ d.user_id = s.user_id
                     /\ d.recipient_wallet_id = r.id
                     /\ c.type = TransactionTypeCredit
                     /\ c.user_id = r.user_id
                     /\ c.sender_wallet_id = s.id
              ELSE transactions' = transactions]_vars

\* a transfer has been answered 200 and its two legs are in the log
C12_Witness ==
  \E p \in Procs :
    /\ pc[p] = "done"
    /\ req[p].path = PathTransfer
    /\ resp[p].code = 200
    /\ \E d, c \in transactions :
         /\ d.type = TransactionTypeTransfer
         /\ d.recipient_wallet_id = loc[p].recipient
         /\ c.type = TransactionTypeCredit
         /\ c.reference = loc[p].reference
         /\ c.sender_wallet_id = loc[p].sender

\* C13: a transfer, as a reader of the two wallets, sees both balances as
\* one committed state has them: at the moment it reads the recipient's
\* balance, the sender's balance it read before is still the committed one.
C13_OneCommittedView ==
  [][\A p \in Procs :
       (pc[p] = "tf_recipient" /\ pc'[p] = "tf_saveSender")
         => balance[loc[p].sender] = loc[p].senderBal]_vars

\* C14 as stated: a webhook request whose signature header is not the
\* HMAC-SHA512 tag of its body under the provider secret is rejected as an
\* invalid signature and changes no record and no balance.
C14_AlwaysInvalidSignature ==
  [][\A p \in Procs :
       LET r == Served(p) IN
       (r.path = PathWebhook /\ r.signature # Hmac(PaystackSecretKey, WebhookBody(r)))
         => /\ ledger' = ledger
            /\ pc'[p] = "done" => resp'[p] = JSON(401, <<"Invalid signature">>)]_vars

\* C14 amended: a webhook request whose signature header is not the
\* HMAC-SHA512 tag of its body under the provider secret is rejected, with
\* 401 invalid signature when the header is not empty and with 400 missing
\* signature when it is, and no step of it changes a balance or a
\* transaction record, whatever event, reference and amount it carries.
C14_BadSignatureRejected ==
  [][\A p \in Procs :
       LET r == Served(p) IN
       (r.path = PathWebhook /\ r.signature # Hmac(PaystackSecretKey, WebhookBody(r)))
         => /\ ledger' = ledger
            /\ pc'[p] \in {"idle", "done"}
            /\ pc'[p] = "done" =>
                 resp'[p] = IF r.signature = <<>>
                              THEN JSON(400, <<"Missing signature">>)
                              ELSE JSON(401, <<"Invalid signature">>)]_vars

\* a charge.success notification for a pending deposit, signed with a
\* forged key, was answered 401
C14_Witness ==
  \E p \in Procs :
    /\ pc[p] = "done"
    /\ req[p].path = PathWebhook
    /\ req[p].event = "charge.success"
    /\ req[p].signature # <<>>
    /\ resp[p] = JSON(401, <<"Invalid signature">>)
    /\ \E t \in TxByReference(req[p].reference) : t.status = TransactionStatusPending

\* C15: a wallet's balance changes in exactly the steps in which a pending
\* deposit of its owner becomes success: status change and credit are
\* committed together or not at all, also when a statement after the status
\* save fails.
C15_StatusWithCredit ==
  [][\A w \in Wallet :
       (\E t \in transactions :
          /\ t.user_id = w.user_id
          /\ t.type = TransactionTypeDeposit
          /\ t.status = TransactionStatusPending
          /\ [t EXCEPT !.status = TransactionStatusSuccess] \in transactions')
         <=> balance'[w.id] # balance[w.id]]_vars

\* a confirmation failed after the status save and the wallet look-up: the
\* record it loaded is still pending in the log
C15_Witness ==
  \E p \in Procs :
    /\ pc[p] = "done"
    /\ req[p].path = PathWebhook
    /\ resp[p] = JSON(500, <<"Failed to process deposit">>)
    /\ loc[p].transaction # NoTx
    /\ loc[p].recipient # NoWallet
    /\ loc[p].transaction \in transactions
    /\ loc[p].transaction.status = TransactionStatusPending

\* C16: in every step a transaction record stays as it is, or is pending and
\* becomes success or failed with its other fields unchanged; a record that
\* is success or failed is never changed or removed.
C16_StatusFinal ==
  [][\A t \in transactions :
       \/ t \in transactions'
       \/ /\ t.status = TransactionStatusPending
          /\ \E st \in {TransactionStatusSuccess, TransactionStatusFailed} :
               [t EXCEPT !.status = st] \in transactions']_vars

\* a signed notification of another event arrived for a confirmed deposit
\* and was acknowledged; the record is still success
C16_Witness ==
  \E p \in Procs :
    /\ pc[p] = "done"
    /\ req[p].path = PathWebhook
    /\ req[p].event # "charge.success"
    /\ verifyPaystackSignature(WebhookBody(req[p]), req[p].signature)
    /\ resp[p] = Acknowledged
    /\ \E t \in TxByReference(req[p].reference) : t.status = TransactionStatusSuccess

\* C17: after an InitiateDeposit that failed at the call of the payment
\* collaborator, the log holds no record of the reference that call
\* generated.
C17_NoRecordLeft ==
  \A p \in Procs :
    (/\ pc[p] = "done"
     /\ req[p].path = PathDeposit
     /\ resp[p] = JSON(500, <<"Failed to initialize payment">>))
      => TxByReference(loc[p].reference) = {}


\* worker p takes a request in this step
Arrives(p) == pc[p] = "idle" /\ pc'[p] # "idle"

\* the request worker p took got past the guards of its route, into the
\* handler
ReachedHandler(p) == resp'[p].code \notin {401, 403}

GuardedPaths == {PathDeposit, PathTransfer, PathBalance, PathTransactions}

\* the permission the operation of a guarded path requires
Required(path) ==
  CASE path = PathDeposit -> "deposit"
    [] path = PathTransfer -> "transfer"
    [] path = PathBalance -> "read"
    [] path = PathTransactions -> "read"

\* C18: a request with an API key reaches the handler of deposit, transfer,
\* balance or transaction history only if the table holds an active,
\* unexpired row for the key whose permissions contain the permission the
\* operation requires; a request with a valid signed token reaches the
\* handler of each of them
C18_PermissionGuard ==
  [][\A p \in Procs :
       (Arrives(p) /\ req'[p].path \in GuardedPaths) =>
          /\ (req'[p].cred.type = "api_key" /\ ReachedHandler(p)) =>
                \E row \in apiKeys :
                   /\ row.key = HashAPIKey(req'[p].cred.key)
                   /\ row.is_active /\ hours <= row.expires_at
                   /\ Required(req'[p].path) \in row.permissions
          /\ req'[p].cred.type = "jwt" => ReachedHandler(p)]_vars

\* an API key request is inside the transfer handler, and the key's row does
\* not permit reading
C18_Witness ==
  \E p \in Procs :
    /\ req[p].path = PathTransfer /\ req[p].cred.type = "api_key"
    /\ pc[p] = "tf_saveSender"
    /\ \E row \in apiKeys : row.key = HashAPIKey(req[p].cred.key)
                             /\ "read" \notin row.permissions


\* the rows of the table for the key a request presents
RowsOfKey(k) == {row \in apiKeys : row.key = HashAPIKey(k)}

\* the row is revoked or past its expiry
Dead(row) == ~row.is_active \/ hours > row.expires_at

\* C19: a request presenting an API key whose row is revoked or expired is
\* answered 401 by AuthMiddleware and enters no handler; a revoked or
\* expired row is revoked or expired after every step
C19_DeadKeyRejected ==
  [][/\ \A p \in Procs :
          (/\ Arrives(p)
           /\ req'[p].cred.type = "api_key"
           /\ RowsOfKey(req'[p].cred.key) # {}
           /\ \A row \in RowsOfKey(req'[p].cred.key) : Dead(row))
            => pc'[p] = "done" /\ resp'[p].code = 401
     /\ \A row \in apiKeys :
          Dead(row) => \E next \in apiKeys' :
                          /\ next.id = row.id /\ next.key = row.key
                          /\ ~next.is_active \/ hours' > next.expires_at]_vars

\* a read request presenting a key that RevokeAPIKey has revoked, and which
\* has not expired, was answered 401
C19_Witness ==
  \E p \in Procs :
    /\ pc[p] = "done" /\ req[p].path = PathBalance
    /\ req[p].cred.type = "api_key"
    /\ \E row \in RowsOfKey(req[p].cred.key) :
         ~row.is_active /\ hours <= row.expires_at
    /\ resp[p] = JSON(401, <<"Invalid API key">>)


C21_AtMostFiveActive ==
  \A u \in Users :
    Cardinality({row \in apiKeys : row.user_id = u /\ row.is_active
                                    /\ hours <= row.expires_at}) <= 5


\* the key value the 201 response gave for a row: CkInsert numbers the value
\* it generates as the row it inserts
ReturnedValue(row) == <<"plain", row.id>>

\* C22: a request presenting the value that was returned for a row, while
\* the row is active and not expired, is authenticated as the row's owner
\* and is refused by RequirePermission exactly for the permissions the row
\* lacks
C22_ReturnedKeyAuthenticates ==
  [][\A p \in Procs : \A row \in apiKeys :
       (/\ Arrives(p)
        /\ req'[p].cred = ApiKeyOf(ReturnedValue(row))
        /\ row.is_active /\ hours <= row.expires_at)
         => /\ resp'[p].code # 401
            /\ loc'[p].user_id = row.user_id
            /\ req'[p].path \in GuardedPaths =>
                 (resp'[p].code = 403 <=> Required(req'[p].path) \notin row.permissions)]_vars


\* the caller of the request p serves may deposit: a signed token, or an API
\* key whose row holds the deposit permission
MayDeposit(p) ==
  /\ resp[p].code \notin {401, 403}
  /\ \/ req[p].cred.type = "jwt"
     \/ /\ req[p].cred.type = "api_key"
        /\ \E row \in RowsOfKey(req[p].cred.key) : "deposit" \in row.permissions

C24_OneWalletEach ==
  (\A p \in Procs : pc[p] \in {"idle", "done"})
     => \A u \in users : Cardinality(WalletByUser(u)) = 1


\* C25: with checks run one at a time, the counter of a key never exceeds
\* the cap of 100, at most 100 requests are let through in a window, and a
\* request that arrives in a window whose counter is at the cap is answered
\* 429
C25_CapPerWindow ==
  [][/\ \A k \in RatedKeys : cache'[k].count <= 100 /\ admitted'[k] <= 100
     /\ \A p \in Procs :
          (/\ pc[p] = "rl_read"
           /\ cache[req[p].key_id].exists
           /\ cache[req[p].key_id].count >= 100
           /\ clock <= cache[req[p].key_id].resetTime)
            => pc'[p] = "rl_read" \/ (pc'[p] = "done" /\ resp'[p].code = 429)]_vars

\* the 101st request of a window was answered 429
C25_Witness ==
  \E p \in Procs :
    /\ pc[p] = "done" /\ resp[p].code = 429
    /\ admitted[req[p].key_id] = 100
    /\ cache[req[p].key_id].count = 100

\* C26: when workers run the rate guard concurrently no increment is lost:
\* the counter of a key equals the number of requests let through in its
\* window, which never exceeds the cap
C26_NoLostIncrement ==
  \A k \in RatedKeys : cache[k].count = admitted[k] /\ admitted[k] <= 100


\* C27: no two transfers wait for each other: a worker whose UPDATE waits
\* for a wallet row lock is never waited for by the holder of that lock
C27_NoLockCycle ==
  \A p \in Procs :
    ~(/\ req[p].path = PathTransfer
      /\ BlockedBy(p) # NoProc
      /\ BlockedBy(BlockedBy(p)) = p)


\* the statements of the idempotency middleware
IdemSteps == {"id_lookup", "id_delete", "id_store"}

\* the wrapped handler starts, or has refused the request body
InHandler(p) ==
  \/ pc'[p] \in {"tf_sender", "dp_wallet"}
  \/ pc'[p] \in {"done", "id_store"} /\ resp'[p].code = 400

\* C28: a request without an idempotency token is never at a statement of
\* the middleware; when it has passed authentication it goes straight into
\* the wrapped handler; and the idempotency table changes only in a step of
\* a request that carries a token or of the clean-up its store started
C28_NoTokenNoRecord ==
  [][/\ \A p \in Procs :
          req'[p].token = "" => pc'[p] \notin IdemSteps /\ ~loc'[p].idem
     /\ \A p \in Procs :
          (Arrives(p) /\ req'[p].token = "" /\ resp'[p].code \notin {401, 403})
            => InHandler(p)
     /\ idemKeys' # idemKeys =>
          \/ sweeps' < sweeps
          \/ \E p \in Procs : req[p].token # "" /\ pc[p] \in IdemSteps
    ]_vars

\* a transfer without a token was executed and answered 200 while the table
\* holds a record of the caller
C28_Witness ==
  \E p \in Procs :
    /\ pc[p] = "done" /\ req[p].path = PathTransfer /\ req[p].token = ""
    /\ resp[p].code = 200
    /\ loc[p].sender # NoLoc.sender
    /\ \E k \in idemKeys : k.user_id = loc[p].user_id

\* the idempotency records of the fingerprint of the request p serves
RecordsOf(p) == {k \in idemKeys : k.key = Fp(p)}

\* C29: a record is stored only with a 2xx status; when a request with a
\* token ends with another status the table is left as it is and holds no
\* record for its fingerprint; and a request whose look-up finds no record
\* executes the wrapped handler
C29_StoredOnly2xx ==
  [][/\ \A k \in idemKeys' \ idemKeys :
          k.response_code >= 200 /\ k.response_code <= 299
     /\ \A p \in Procs :
          (/\ pc[p] = "id_store" /\ pc'[p] = "done"
           /\ resp[p].code < 200 \/ resp[p].code > 299)
            => idemKeys' = idemKeys /\ RecordsOf(p) = {}
     /\ \A p \in Procs :
          (pc[p] = "id_lookup" /\ pc'[p] # "id_lookup" /\ RecordsOf(p) = {})
            => InHandler(p)
    ]_vars

\* a transfer with a token was executed, refused for its balance, and no
\* record was stored for it
C29_Witness ==
  \E p \in Procs :
    /\ pc[p] = "done" /\ loc[p].idem /\ req[p].path = PathTransfer
    /\ resp[p] = JSON(400, <<"Insufficient balance">>)
    /\ RecordsOf(p) = {}

\* C30: a record expires 24 hours after it was stored; a request that finds
\* the record of its fingerprint up to that hour is answered with the stored
\* status and body and is done; one that finds it later deletes it and
\* executes the wrapped handler
C30_ReplayedForADay ==
  [][/\ \A k \in idemKeys' \ idemKeys : k.expires_at = hours + 24
     /\ \A p \in Procs : \A k \in RecordsOf(p) :
          (pc[p] = "id_lookup" /\ pc'[p] # "id_lookup")
            => IF hours <= k.expires_at
                 THEN /\ pc'[p] = "done"
                      /\ resp'[p] = JSON(k.response_code, k.response_body)
                      /\ UNCHANGED <<idemKeys, ledger>>
                 ELSE pc'[p] = "id_delete" /\ UNCHANGED <<idemKeys, ledger>>
     /\ \A p \in Procs :
          (pc[p] = "id_delete" /\ pc'[p] # "id_delete")
            => /\ \A k \in idemKeys' : k.key # Fp(p)
               /\ InHandler(p)
    ]_vars

\* after the record of its fingerprint had expired, a transfer was executed
\* a second time and a new record was stored for it
C30_Witness ==
  \E p \in Procs :
    /\ pc[p] = "done" /\ loc[p].idem /\ req[p].path = PathTransfer
    /\ resp[p].code = 200
    /\ loc[p].sender # NoLoc.sender
    /\ Len(okExecs[Fp(p)]) = 2
    /\ \E k \in RecordsOf(p) : k.expires_at = hours + 24


\* worker p commits the unit of processSuccessfulDeposit in this step
Confirms(p) ==
  /\ pc[p] = "wh_commit" /\ pc'[p] = "done"
  /\ resp'[p] = Acknowledged

\* C31: a valid charge.success notification for a pending deposit whose
\* amount differs from the initiated amount is applied when its unit
\* commits: the owner's wallet is credited by the amount of the
\* notification, the record becomes success and keeps the initiated amount,
\* and no record carries the amount of the notification instead
C31_NotifiedAmountCredited ==
  [][\A p \in Procs :
       LET r == req[p]
           t == loc[p].transaction IN
       (Confirms(p) /\ ValidNotification(r) /\ r.amount # t.amount)
         => /\ t \in transactions /\ t.status # TransactionStatusSuccess
            /\ balance' = [balance EXCEPT ![TheWallet(t.user_id).id] = @ + r.amount]
            /\ transactions' = (transactions \ {t}) \cup {MarkSuccess(t)}
            /\ \A x \in TxByReference(r.reference)' : x.amount = t.amount
    ]_vars

\* a notification of 2 for a deposit initiated with 1 was acknowledged; the
\* wallet holds 2 and the record says success with 1
C31_Witness ==
  \E p \in Procs :
    /\ pc[p] = "done" /\ ValidNotification(req[p]) /\ resp[p] = Acknowledged
    /\ loc[p].transaction # NoTx
    /\ req[p].amount > loc[p].transaction.amount
    /\ balance[TheWallet(loc[p].transaction.user_id).id] = req[p].amount
    /\ MarkSuccess(loc[p].transaction) \in transactions


\* C32: every commit that changes a wallet balance also changes the
\* transaction log (inserts a record or changes the status of one)
C32_BalanceWithRecord ==
  [][balance' # balance => transactions' # transactions]_vars


\* a well-formed transfer request of an authenticated caller without a wallet
WalletlessCall(r) ==
  /\ r.path = PathTransfer
  /\ BindTransfer(r)
  /\ AuthMiddleware(r.cred) # NoUser
  /\ WalletByUser(AuthMiddleware(r.cred)) = {}

\* C33: a transfer called by a user who has no wallet is answered 404
C33_NoWalletNotFound ==
  \A p \in Procs :
    (pc[p] = "done" /\ WalletlessCall(req[p]) /\ resp[p].code \notin {401, 403})
      => resp[p].code = 404


\* a correctly signed, well-formed notification of another event kind
OtherEvent(r) ==
  /\ r.path = PathWebhook
  /\ verifyPaystackSignature(WebhookBody(r), r.signature)
  /\ r.valid_json
  /\ r.event # "charge.success"

\* C34: a correctly signed webhook whose event kind is not charge.success
\* is answered 200 on arrival, and no step of its service changes a
\* transaction record or a balance
C34_OtherEventIgnored ==
  [][\A p \in Procs :
       OtherEvent(Served(p))
         => /\ UNCHANGED ledger
            /\ pc[p] = "idle" => pc'[p] = "done" /\ resp'[p] = Acknowledged
    ]_vars

\* a charge.failed notification naming a pending deposit was acknowledged
\* and the deposit is still pending
C34_Witness ==
  \E p \in Procs :
    /\ pc[p] = "done" /\ OtherEvent(req[p]) /\ resp[p] = Acknowledged
    /\ \E t \in TxByReference(req[p].reference) :
         t.type = TransactionTypeDeposit /\ t.status = TransactionStatusPending


ProcessingFailure == JSON(500, <<"Failed to process deposit">>)

\* a valid charge.success notification whose reference no record carries
UnknownReference(r) ==
  /\ ValidNotification(r)
  /\ \A t \in transactions : t.reference # r.reference

\* C35: a valid charge.success notification whose reference matches no
\* record is answered with the processing failure by the look-up, and no
\* step of its service changes a balance or the set of records
C35_UnknownReferenceFails ==
  [][\A p \in Procs :
       UnknownReference(Served(p))
         => /\ UNCHANGED ledger
            /\ pc[p] = "idle" => pc'[p] = "wh_find"
            /\ pc[p] = "wh_find" => pc'[p] = "done" /\ resp'[p] = ProcessingFailure
    ]_vars

\* a notification for a reference of no record was answered 500 while a
\* deposit is pending
C35_Witness ==
  \E p \in Procs :
    /\ pc[p] = "done" /\ UnknownReference(req[p]) /\ resp[p] = ProcessingFailure
    /\ \E t \in transactions : t.status = TransactionStatusPending


\* the committed records carry pairwise different references
DistinctReferences(rows) ==
  \A t1, t2 \in rows : t1.reference = t2.reference => t1 = t2

\* worker p is about to insert a record whose reference a committed record
\* or an earlier insert of its own unit carries
Collides(p) ==
  /\ pc[p] \in {"tf_senderTx", "tf_recipientTx", "dp_create"}
  /\ \E t \in transactions \cup wr[p].ins : t.reference = loc[p].reference

\* C36: in every committed state the references of the records are pairwise
\* different; an insert whose reference is already taken ends the request
\* with 500, with the balances and the records as they were committed and
\* nothing of the unit left
C36_UniqueReferences ==
  [][/\ DistinctReferences(transactions) /\ DistinctReferences(transactions')
     /\ \A p \in Procs :
          (Collides(p) /\ pc'[p] # pc[p])
            => /\ pc'[p] = "done" /\ resp'[p].code = 500
               /\ UNCHANGED ledger
               /\ wr'[p] = NoWr
    ]_vars

\* of two concurrent transfers one was completed and the other failed with
\* a reference the completed one had committed
C36_Witness ==
  \E p, q \in Procs :
    /\ p # q /\ pc[p] = "done" /\ pc[q] = "done"
    /\ req[p].path = PathTransfer /\ req[q].path = PathTransfer
    /\ resp[q].code = 200
    /\ resp[p] = JSON(500, <<"Transfer failed">>)
    /\ \E t \in TxByReference(loc[p].reference) :
         t.amount = req[q].amount /\ t.user_id # NoUser
    /\ balance["w1"] = FundedBalance - req[q].amount


\* the unexpired records stored for the caller, path and token of the
\* request p serves
Matching(p) ==
  {k \in idemKeys : /\ k.user_id = loc[p].user_id
                    /\ k.request_path = req[p].path
                    /\ k.key = loc[p].user_id \o req[p].path \o req[p].token
                    /\ hours <= k.expires_at}

\* C37: a record is stored under the caller, path and token of the request
\* that stores it; the look-up of a request answers from a record exactly
\* when an unexpired record of its caller, path and token exists, whatever
\* body the record was stored for, and then with that record's status and
\* body; otherwise the request is not answered by the look-up
C37_KeyedByCallerPathToken ==
  [][/\ \A k \in idemKeys' \ idemKeys :
          \E p \in Procs :
            /\ pc[p] = "id_store"
            /\ k.user_id = loc[p].user_id /\ k.request_path = req[p].path
            /\ k.key = loc[p].user_id \o req[p].path \o req[p].token
     /\ \A p \in Procs :
          (pc[p] = "id_lookup" /\ pc'[p] # "id_lookup")
            => IF Matching(p) # {}
                 THEN /\ pc'[p] = "done"
                      /\ \E k \in Matching(p) :
                           resp'[p] = JSON(k.response_code, k.response_body)
                 ELSE pc'[p] # "done"
    ]_vars

\* a transfer was answered from the record of a transfer of the same
\* caller and token with another body, while a record of the same token
\* stored for another caller or another path is in the table
C37_Witness ==
  \E p \in Procs :
    /\ pc[p] = "done" /\ req[p].path = PathTransfer /\ req[p].token # ""
    /\ loc[p].sender = NoLoc.sender
    /\ \E k \in Matching(p) :
         /\ k.request_body # <<req[p].wallet_number, req[p].amount>>
         /\ resp[p] = JSON(k.response_code, k.response_body)
    /\ \E k \in idemKeys : k.user_id # loc[p].user_id \/ k.request_path # req[p].path


\* C38: the requests of one key let through at two neighbouring clock
\* readings, which lie less than one window apart, number at most 100
C38_RollingCap ==
  \A k \in RatedKeys : lately[k].n + lately[k].before <= 100


\* the success records of user u of the types kinds
SuccessRecords(u, kinds) ==
  {t \in transactions : /\ t.user_id = u
                        /\ t.status = TransactionStatusSuccess
                        /\ t.type \in kinds}

\* C39: the balance of every wallet is the sum of its owner's success
\* deposits and credit legs minus the sum of the owner's transfer legs
C39_BalanceFromLog ==
  \A w \in wallets :
    balance[w.id] =
      SumAmounts(SuccessRecords(w.user_id, {TransactionTypeDeposit, TransactionTypeCredit}))
        - SumAmounts(SuccessRecords(w.user_id, {TransactionTypeTransfer}))


\* C40: a status query is answered with a record only when the caller owns
\* the record and, when the caller came with an API key, the key carries
\* the read permission
C40_StatusToOwnerOnly ==
  \A p \in Procs :
    (pc[p] = "done" /\ req[p].path = PathStatus /\ resp[p].code = 200)
      => /\ \E t \in TxByReference(req[p].reference) : t.user_id = loc[p].user_id
         /\ req[p].cred.type = "api_key" => "read" \in PermissionsOf(req[p].cred)

====
